---- MODULE Spec2Model ----
(***************************************************************************)
(* Model of the data-acquisition and resilience layer of the Disney data   *)
(* proxy.  The repository holds three revisions of the server:             *)
(*   "v1"  = src/unnamed/part_000   (no breaker, no validation)            *)
(*   "v31" = src/server.js 1..1012  (breaker, fetchWithRetry, validatePark)*)
(*   "v32" = src/server.js 1014..   (same, with the "FIXED" networking)    *)
(* The revision is chosen at start-up and never changes.                   *)
(***************************************************************************)
EXTENDS Integers, Sequences, FiniteSets, TLC

\* ------------------------------------------------------------------ bounds
MaxSlots == 2
MaxRequests == 3
MaxRetries == 3
MaxServerRequests == 2
MaxFairRequests == 1
MaxCacheRequests == 2
MaxList == 2
MaxSharedRequests == 2
MaxRateRequests == 2

\* --------------------------------------------------------------- revisions
Revs == {"v1", "v31", "v32"}
BreakerRevs == {"v31", "v32"}

\* ------------------------------------------------------- input validation
validParks == {"magic-kingdom", "epcot", "hollywood-studios", "animal-kingdom"}

\* park parameters the modelled clients send: two supported parks, one
\* unsupported park and "", an absent :park? segment
UnknownParks == {"epic-universe"}
ParkParams == {"magic-kingdom", "epcot"} \cup UnknownParks \cup {""}

\* the wait-times clients ask for one supported park (their requests share one
\* breaker whatever the park is), the unsupported one, or none
WaitTimesParams == ParkParams \ {"epcot"}

\* req.params.park || 'magic-kingdom'
defaultPark(param) ==
  IF param = "" THEN "magic-kingdom" ELSE param

\* validatePark: TRUE when next() is called, FALSE when it answers 400.
\* The v1 routes are registered without the middleware.
validatePark(rev, park) ==
  IF rev = "v1" THEN TRUE ELSE park \in validParks

\* ------------------------------------------------------------- upstream ids
getParkId(park) ==
  CASE park = "magic-kingdom" -> 6
    [] park = "epcot" -> 5
    [] park = "hollywood-studios" -> 7
    [] park = "animal-kingdom" -> 8
    [] OTHER -> 6

getThemeParksWikiId(park) ==
  CASE park = "magic-kingdom" -> "magickingdom"
    [] park = "epcot" -> "epcot"
    [] park = "hollywood-studios" -> "hollywoodstudios"
    [] park = "animal-kingdom" -> "animalkingdom"
    [] OTHER -> "magickingdom"

\* a URL is its host and the park-dependent path segment
getSourceName(url) ==
  CASE url.host = "touringplans.com" -> "touringplans"
    [] url.host = "queue-times.com" -> "queue_times"
    [] url.host = "api.themeparks.wiki" -> "themeparks_wiki"
    [] OTHER -> "unknown"

\* ------------------------------------------------------------ HTTP answers
\* axios either rejects (timeout, network error, status outside 2xx) or
\* resolves with a status and a body.
Statuses == {200, 203, 503}

NetworkError == [kind |-> "error", status |-> 0, body |-> [shape |-> "empty"]]

Ride1 == [id |-> "1", wait_time |-> 30, is_open |-> TRUE]

\* the same ride as ThemeParks.wiki reports it
WikiRide1 == [id |-> "1", waitTime |-> 30, status |-> "Operating"]

\* a JSON null where a ride object is expected
JsonNull == [json |-> "null"]

\* a body of shape "lands" is an object whose lands hold `rides`, here in the
\* order in which the two forEach loops visit them; a body of shape "array"
\* is an array of rides
WaitBodies ==
  { [shape |-> "empty"],
    [shape |-> "lands", rides |-> <<Ride1>>],
    [shape |-> "array", rides |-> <<WikiRide1>>],
    [shape |-> "string"] }

HoursBodies ==
  { [shape |-> "empty"],
    [shape |-> "calendar"],
    [shape |-> "emptyArray"],
    [shape |-> "info"],
    [shape |-> "schedule"],
    [shape |-> "operating_hours"],
    [shape |-> "object"],
    [shape |-> "string"] }

\* the answers drawn for one GET: no answer at all, status 200 with every body,
\* every other status with a non-empty body (a non-empty body is the only one
\* that can make such an answer count as a success)
Responses(bodies) ==
  {NetworkError} \cup
  {[kind |-> "response", status |-> 200, body |-> b] : b \in bodies} \cup
  {[kind |-> "response", status |-> s, body |-> [shape |-> "string"]] :
     s \in Statuses \ {200}}

\* axios default validateStatus: the promise resolves only for 2xx
axiosResolves(resp) ==
  resp.kind = "response" /\ resp.status >= 200 /\ resp.status < 300

\* JavaScript truthiness of response.data: only the empty body is falsy here
truthy(body) ==
  body.shape # "empty"

\* ------------------------------------------------------------ fetchWithRetry
DefaultRetries == 2

\* the timeout of the axios.get call inside fetchWithRetry
requestTimeout(rev, options) ==
  IF rev = "v31" THEN 5000 ELSE 8000

\* does fetchWithRetry return the response of this attempt?
attemptSucceeds(rev, resp) ==
  /\ axiosResolves(resp)
  /\ (rev = "v32" => resp.status = 200)
  /\ truthy(resp.body)

\* a retry test that is off by one (retries >= 0)
fetchOutcomeOffByOne(rev, resp, retries) ==
  IF attemptSucceeds(rev, resp) THEN "return"
  ELSE IF retries >= 0 THEN "retry"
  ELSE "throw"

\* what fetchWithRetry does with the outcome of one attempt
fetchOutcome(rev, resp, retries) ==
  IF attemptSucceeds(rev, resp) THEN "return"
  ELSE IF retries > 0 THEN "retry"
  ELSE "throw"

\* the budget passed to the recursive call
nextRetries(retries) ==
  retries - 1

\* ---------------------------------------------------------- source registry
\* the wait-times sources as declared, before sorting
waitTimesSources(rev, park) ==
  CASE rev = "v31" ->
         << [url |-> [host |-> "queue-times.com", id |-> getParkId(park)],
             priority |-> 1, timeout |-> 3000, parser |-> "queue_times"],
            [url |-> [host |-> "touringplans.com", id |-> park],
             priority |-> 2, timeout |-> 5000, parser |-> "queue_times"] >>
    [] rev = "v32" ->
         << [url |-> [host |-> "queue-times.com", id |-> getParkId(park)],
             priority |-> 1, timeout |-> 5000, parser |-> "queue_times"],
            [url |-> [host |-> "api.themeparks.wiki", id |-> getThemeParksWikiId(park)],
             priority |-> 2, timeout |-> 8000, parser |-> "themeparks_wiki"] >>
    [] OTHER ->
         << [url |-> [host |-> "queue-times.com", id |-> getParkId(park)],
             priority |-> 1, timeout |-> 10000, parser |-> "queue_times"],
            [url |-> [host |-> "touringplans.com", id |-> park],
             priority |-> 2, timeout |-> 10000, parser |-> "queue_times"] >>

\* insertion with the comparator reversed (b.priority - a.priority)
RECURSIVE insertByPriorityReversed(_, _)
insertByPriorityReversed(x, s) ==
  IF s = <<>> THEN <<x>>
  ELSE IF Head(s).priority - x.priority < 0 THEN <<x>> \o s
  ELSE <<Head(s)>> \o insertByPriorityReversed(x, Tail(s))

\* insertion of one source into a list already sorted by priority (stable)
RECURSIVE insertByPriority(_, _)
insertByPriority(x, s) ==
  IF s = <<>> THEN <<x>>
  ELSE IF x.priority - Head(s).priority < 0 THEN <<x>> \o s
  ELSE <<Head(s)>> \o insertByPriority(x, Tail(s))

\* sources.sort((a, b) => a.priority - b.priority)
RECURSIVE sortByPriority(_)
sortByPriority(s) ==
  IF s = <<>> THEN <<>>
  ELSE LET front == SubSeq(s, 1, Len(s) - 1)
       IN insertByPriority(s[Len(s)], sortByPriority(front))

\* the list the acquisition loop iterates over (v1 iterates the literal list)
sourcesInOrder(rev, park) ==
  IF rev = "v1" THEN waitTimesSources(rev, park)
  ELSE sortByPriority(waitTimesSources(rev, park))

\* the retry budget the wait-times loop hands to fetchWithRetry
BreakerRetries == 1

\* a v1 loop that asks Queue-Times before TouringPlans
parkHoursSourcesQueueTimesFirst(rev, park) ==
  CASE rev = "v1" ->
         << [url |-> [host |-> "queue-times.com", id |-> getParkId(park)],
             timeout |-> 10000, parser |-> "v1"],
            [url |-> [host |-> "touringplans.com", id |-> park],
             timeout |-> 10000, parser |-> "v1"],
            [url |-> [host |-> "api.themeparks.wiki", id |-> park],
             timeout |-> 10000, parser |-> "v1"] >>
    [] rev = "v31" ->
         << [url |-> [host |-> "queue-times.com", id |-> getParkId(park)],
             timeout |-> 5000, parser |-> "queue_times"] >>
    [] OTHER ->
         << [url |-> [host |-> "queue-times.com", id |-> getParkId(park)],
             timeout |-> 8000, parser |-> "queue_times_info"],
            [url |-> [host |-> "api.themeparks.wiki", id |-> getThemeParksWikiId(park)],
             timeout |-> 8000, parser |-> "themeparks_wiki"] >>

\* park-hours sources, in the order of the loop
parkHoursSources(rev, park) ==
  CASE rev = "v1" ->
         << [url |-> [host |-> "touringplans.com", id |-> park],
             timeout |-> 10000, parser |-> "v1"],
            [url |-> [host |-> "queue-times.com", id |-> getParkId(park)],
             timeout |-> 10000, parser |-> "v1"],
            [url |-> [host |-> "api.themeparks.wiki", id |-> park],
             timeout |-> 10000, parser |-> "v1"] >>
    [] rev = "v31" ->
         << [url |-> [host |-> "queue-times.com", id |-> getParkId(park)],
             timeout |-> 5000, parser |-> "queue_times"] >>
    [] OTHER ->
         << [url |-> [host |-> "queue-times.com", id |-> getParkId(park)],
             timeout |-> 8000, parser |-> "queue_times_info"],
            [url |-> [host |-> "api.themeparks.wiki", id |-> getThemeParksWikiId(park)],
             timeout |-> 8000, parser |-> "themeparks_wiki"] >>

\* -------------------------------------------------------------- normalizers
\* one canonical attraction from one upstream ride
\* ride[key]: a property the object does not have reads as undefined
has(ride, key) ==
  key \in DOMAIN ride

\* `${park}-${ride.id}`
rideId(park, ride) ==
  <<park, IF has(ride, "id") THEN ride.id ELSE "undefined">>

\* one canonical attraction from one upstream ride: `x || 0`, `x || false`
\* for the Queue-Times fields, `status === 'Operating'` for ThemeParks.wiki
attraction(park, ride, parser) ==
  IF parser = "themeparks_wiki"
  THEN [id |-> rideId(park, ride),
        waitTime |-> IF has(ride, "waitTime") /\ ride.waitTime # 0
                     THEN ride.waitTime ELSE 0,
        isOpen |-> has(ride, "status") /\ ride.status = "Operating"]
  ELSE [id |-> rideId(park, ride),
        waitTime |-> IF has(ride, "wait_time") /\ ride.wait_time # 0
                     THEN ride.wait_time ELSE 0,
        isOpen |-> has(ride, "is_open") /\ ride.is_open]

parseRides(park, rides, parser) ==
  [i \in 1..Len(rides) |-> attraction(park, rides[i], parser)]

\* the branch of parseWaitTimesData that this body and parser take
parseBranch(rev, data, parser) ==
  IF rev = "v32"
  THEN IF parser = "queue_times" /\ data.shape = "lands" THEN "queue_times"
       ELSE IF parser = "themeparks_wiki" /\ data.shape = "array"
         THEN "themeparks_wiki"
       ELSE "none"
  ELSE IF data.shape = "lands" THEN "queue_times" ELSE "none"

\* reading a property of null inside a forEach callback raises a TypeError
parseRaises(rev, data, parser) ==
  /\ parseBranch(rev, data, parser) # "none"
  /\ \E i \in 1..Len(data.rides) : data.rides[i] = JsonNull

\* does the TypeError leave parseWaitTimesData?  v1 has no try/catch
parseThrows(rev, data, parser) ==
  rev = "v1" /\ parseRaises(rev, data, parser)

\* parseWaitTimesData(data, park, parser) when it returns; v1 and v31 know
\* one format only, and the catch of v31 and v32 returns a new empty list
parseWaitTimesData(rev, data, park, parser) ==
  IF parseBranch(rev, data, parser) = "none" \/ parseRaises(rev, data, parser)
  THEN <<>>
  ELSE parseRides(park, data.rides, parseBranch(rev, data, parser))

\* ------------------------------------------------------------ fallback data
fb(prefix, name, wait) ==
  [id |-> <<prefix, name>>, waitTime |-> wait, isOpen |-> TRUE]

\* the `fallbacks` table of getFallbackWaitTimes and what an absent key yields
fallbacks(rev, park) ==
  CASE park = "magic-kingdom" ->
         IF rev = "v31"
           THEN <<fb("mk", "space-mountain", 45), fb("mk", "pirates", 25)>>
         ELSE IF rev = "v32"
           THEN <<fb("mk", "space-mountain", 45), fb("mk", "pirates", 25),
                  fb("mk", "haunted-mansion", 35), fb("mk", "big-thunder", 40)>>
         ELSE <<fb("mk", "space-mountain", 45), fb("mk", "pirates", 25),
                fb("mk", "haunted-mansion", 30)>>
    [] park = "epcot" ->
         IF rev = "v31" THEN <<fb("ep", "guardians", 85)>>
         ELSE IF rev = "v32"
           THEN <<fb("ep", "guardians", 85), fb("ep", "frozen", 60)>>
         ELSE <<fb("ep", "guardians", 85), fb("ep", "test-track", 55)>>
    [] park = "hollywood-studios" ->
         IF rev = "v32"
           THEN <<fb("hs", "rise", 120), fb("hs", "smugglers", 45)>>
         ELSE <<fb("hs", "rise", 120)>>
    [] park = "animal-kingdom" ->
         IF rev = "v32"
           THEN <<fb("ak", "avatar", 90), fb("ak", "everest", 55)>>
         ELSE <<fb("ak", "avatar", 90)>>
    [] OTHER ->
         IF rev = "v1"
           THEN <<fb("mk", "space-mountain", 45), fb("mk", "pirates", 25),
                  fb("mk", "haunted-mansion", 30)>>
         ELSE <<>>

\* getFallbackWaitTimes(park): no freshnessScore field is set
getFallbackWaitTimes(rev, park) ==
  [park |-> park,
   attractions |-> fallbacks(rev, park),
   source |-> "fallback"]

\* the value the wrapped wait-times function returns for a successful source
\* (v1 has no freshnessScore field)
liveWaitTimes(rev, park, src, data) ==
  IF rev = "v1"
  THEN [park |-> park,
        attractions |-> parseWaitTimesData(rev, data, park, src.parser),
        source |-> getSourceName(src.url)]
  ELSE [park |-> park,
        attractions |-> parseWaitTimesData(rev, data, park, src.parser),
        source |-> getSourceName(src.url),
        freshnessScore |-> 100]

\* --------------------------------------------------------------- park hours
\* JavaScript null
Null == [source |-> "null"]

hoursEntry(open, close, origin) ==
  [openingTime |-> open, closingTime |-> close, origin |-> origin]

getTypicalOpeningTime(park) ==
  IF park = "animal-kingdom" THEN "08:00" ELSE "09:00"

getTypicalClosingTime(park) ==
  CASE park = "magic-kingdom" -> "23:00"
    [] park = "animal-kingdom" -> "20:00"
    [] OTHER -> "21:00"

\* getStaticParkHours (v31, v32) and getFallbackHours (v1)
getStaticParkHours(rev, park) ==
  IF rev = "v1"
  THEN LET open == IF park = "animal-kingdom" THEN "8:00 AM" ELSE "9:00 AM"
           close == CASE park = "animal-kingdom" -> "8:00 PM"
                      [] park \in {"epcot", "hollywood-studios"} -> "9:00 PM"
                      [] OTHER -> "10:00 PM"
       IN [park |-> park,
           hours |-> <<hoursEntry(open, close, "static"),
                       hoursEntry(open, close, "static")>>,
           source |-> "fallback"]
  ELSE [park |-> park,
        hours |-> <<hoursEntry(getTypicalOpeningTime(park),
                               getTypicalClosingTime(park), "static")>>,
        source |-> "fallback"]

\* does parseHoursData throw on this body?  (v31: data.slice(0, 7).map on a
\* value that is not an array)
parseHoursThrows(rev, data) ==
  rev = "v31" /\ data.shape # "calendar"

\* the hours list parseHoursData builds
parseHours(rev, data, park, parser) ==
  CASE rev = "v1" ->
         IF data.shape = "operating_hours"
           THEN <<hoursEntry("upstream", "upstream", "upstream")>>
         ELSE <<hoursEntry("9:00 AM", "10:00 PM", "default"),
                hoursEntry("9:00 AM", "10:00 PM", "default")>>
    [] rev = "v31" ->
         <<hoursEntry("upstream", "upstream", "upstream")>>
    [] OTHER ->
         IF \/ parser = "queue_times_info" /\ data.shape = "info"
            \/ parser = "themeparks_wiki" /\ data.shape = "schedule"
           THEN <<hoursEntry("upstream", "upstream", "upstream")>>
         ELSE <<hoursEntry(getTypicalOpeningTime(park),
                           getTypicalClosingTime(park), "typical")>>

\* does the park-hours loop take this response as its answer?
hoursAccepted(rev, resp) ==
  /\ axiosResolves(resp)
  /\ truthy(resp.body)
  /\ (rev = "v32" => resp.status = 200)
  /\ (rev = "v31" => resp.body.shape \in {"calendar", "string"})

\* an acquisition that resolves to the static hours where the parser gives up
liveParkHoursOrStatic(rev, park, src, data) ==
  LET hours == parseHours(rev, data, park, src.parser)
  IN IF parseHoursThrows(rev, data) THEN getStaticParkHours(rev, park)
     ELSE IF rev = "v1"
       THEN [park |-> park, hours |-> hours,
             source |-> getSourceName(src.url)]
     ELSE [park |-> park, hours |-> hours,
           source |-> IF rev = "v31" THEN "queue_times" ELSE src.parser,
           dataQuality |-> "live"]

\* what fetchParkHours / fetchLiveParkHours returns for an accepted response
liveParkHours(rev, park, src, data) ==
  LET hours == parseHours(rev, data, park, src.parser)
  IN IF parseHoursThrows(rev, data) THEN Null
     ELSE IF rev = "v1"
       THEN [park |-> park, hours |-> hours,
             source |-> getSourceName(src.url)]
     ELSE [park |-> park, hours |-> hours,
           source |-> IF rev = "v31" THEN "queue_times" ELSE src.parser,
           dataQuality |-> "live"]

\* ------------------------------------------------------------- entertainment
\* one entertainment record: the fields the aggregation looks at
item(id, type, source) ==
  [id |-> id, type |-> type, source |-> source, times |-> "default"]

\* a server without curated character meets
noStaticCharacterMeets(park) ==
  <<>>

getStaticCharacterMeets(park) ==
  CASE park = "magic-kingdom" ->
         << item("princess_fairytale_hall", "character_meet", "static"),
            item("town_square_theater_mickey", "character_meet", "static"),
            item("petes_silly_sideshow", "character_meet", "static"),
            item("tinker_bell_nook", "character_meet", "static"),
            item("enchanted_tales_belle", "character_meet", "static") >>
    [] park = "epcot" ->
         << item("epcot_character_spot", "character_meet", "static") >>
    [] park = "hollywood-studios" ->
         << item("red_carpet_dreams", "character_meet", "static") >>
    [] park = "animal-kingdom" ->
         << item("adventure_outpost", "character_meet", "static") >>
    [] OTHER -> <<>>

\* a fallback table without entries
noFallbackEntertainment(rev, park) ==
  <<>>

\* getFallbackEntertainment(park).entertainment
getFallbackEntertainment(rev, park) ==
  IF rev = "v32"
  THEN IF park = "magic-kingdom"
       THEN << item("happily_ever_after", "fireworks", "fallback"),
               item("festival_of_fantasy", "parade", "fallback"),
               item("country_bear_jamboree", "show", "fallback"),
               item("monsters_inc_laugh_floor", "show", "fallback"),
               item("carousel_of_progress", "show", "fallback"),
               item("tiki_room", "show", "fallback"),
               item("hall_of_presidents", "show", "fallback"),
               item("philharmagic", "show", "fallback") >>
       ELSE << item("default_fallback", "show", "fallback") >>
  ELSE << item("parade_fallback", "parade", "fallback") >>

\* fetchEntertainmentData: a placeholder that resolves to null
fetchEntertainmentData(park) ==
  Null

\* the page the character scrape may receive: nothing, a blocking page, a
\* parsed JSON object, or a schedule page naming characters of Magic Kingdom
ScrapeBodies ==
  { [shape |-> "empty"],
    [shape |-> "denied"],
    [shape |-> "object"],
    [shape |-> "html", names |-> <<>>],
    [shape |-> "html", names |-> <<"mickey">>],
    [shape |-> "html", names |-> <<"mickey", "mickey">>] }

\* String.prototype.toLowerCase, letter by letter
lowerChar(c) ==
  CASE c = "A" -> "a" [] c = "B" -> "b" [] c = "C" -> "c" [] c = "D" -> "d"
    [] c = "E" -> "e" [] c = "F" -> "f" [] c = "G" -> "g" [] c = "H" -> "h"
    [] c = "I" -> "i" [] c = "J" -> "j" [] c = "K" -> "k" [] c = "L" -> "l"
    [] c = "M" -> "m" [] c = "N" -> "n" [] c = "O" -> "o" [] c = "P" -> "p"
    [] c = "Q" -> "q" [] c = "R" -> "r" [] c = "S" -> "s" [] c = "T" -> "t"
    [] c = "U" -> "u" [] c = "V" -> "v" [] c = "W" -> "w" [] c = "X" -> "x"
    [] c = "Y" -> "y" [] c = "Z" -> "z" [] OTHER -> c

RECURSIVE lowerFrom(_, _)
lowerFrom(str, i) ==
  IF i > Len(str) THEN ""
  ELSE lowerChar(SubSeq(str, i, i)) \o lowerFrom(str, i + 1)

toLowerCase(str) ==
  lowerFrom(str, 1)

\* the characters \w matches
WordChars ==
  {"a", "b", "c", "d", "e", "f", "g", "h", "i", "j", "k", "l", "m", "n", "o",
   "p", "q", "r", "s", "t", "u", "v", "w", "x", "y", "z",
   "A", "B", "C", "D", "E", "F", "G", "H", "I", "J", "K", "L", "M", "N", "O",
   "P", "Q", "R", "S", "T", "U", "V", "W", "X", "Y", "Z",
   "0", "1", "2", "3", "4", "5", "6", "7", "8", "9", "_"}

\* str.replace(/\W+/g, '_') from position i on: every run of characters that
\* \w does not match becomes one underscore
RECURSIVE replaceNonWord(_, _)
replaceNonWord(str, i) ==
  IF i > Len(str) THEN ""
  ELSE LET c == SubSeq(str, i, i)
       IN IF c \in WordChars THEN c \o replaceNonWord(str, i + 1)
          ELSE IF i > 1 /\ SubSeq(str, i - 1, i - 1) \notin WordChars
            THEN replaceNonWord(str, i + 1)
          ELSE "_" \o replaceNonWord(str, i + 1)

\* an identifier made of the name alone
liveIdBare(name) ==
  toLowerCase(replaceNonWord(name, 1))

\* `live_${name.replace(/\W+/g, '_').toLowerCase()}`
liveId(name) ==
  "live_" \o toLowerCase(replaceNonWord(name, 1))

scrapeSource ==
  [url |-> [host |-> "www.themeparkiq.com", id |-> ""], timeout |-> 15000]

\* a scrape that looks for the 403 only
scrapeThrowsOn403(resp) ==
  \/ resp.kind # "response"
  \/ resp.status = 403
  \/ resp.body.shape \in {"denied", "object"}

\* does the scrape run into its catch block on this answer?  (validateStatus
\* accepts every status; data.includes throws on a value that is no string)
scrapeThrows(resp) ==
  \/ resp.kind # "response"
  \/ resp.status # 200
  \/ resp.body.shape \in {"denied", "object"}

\* characterData.characters for an answer of the schedule page
scrapeCharacters(resp) ==
  IF scrapeThrows(resp) \/ resp.body.shape # "html" THEN <<>>
  ELSE [i \in 1..Len(resp.body.names) |->
          item(liveId(resp.body.names[i]), "character_meet", "theme_park_iq")]

\* a deduplication that keeps the first record of each id
RECURSIVE dedupKeepingFirst(_, _)
dedupKeepingFirst(items, i) ==
  IF i > Len(items) THEN <<>>
  ELSE IF \E j \in 1..(i - 1) : items[j].id = items[i].id
    THEN dedupKeepingFirst(items, i + 1)
  ELSE <<items[i]>> \o dedupKeepingFirst(items, i + 1)

\* [...new Map(items.map(item => [item.id, item])).values()]: one record per
\* id, at the position of the first one, with the value of the last one
RECURSIVE dedupFrom(_, _)
dedupFrom(items, i) ==
  IF i > Len(items) THEN <<>>
  ELSE IF \E j \in 1..(i - 1) : items[j].id = items[i].id
    THEN dedupFrom(items, i + 1)
  ELSE LET last == CHOOSE k \in i..Len(items) :
                     /\ items[k].id = items[i].id
                     /\ \A m \in (k + 1)..Len(items) : items[m].id # items[i].id
       IN <<items[last]>> \o dedupFrom(items, i + 1)

dedupById(items) ==
  dedupFrom(items, 1)

\* a filter that lets every record through
isAnyType(x) ==
  TRUE

isCharacterMeet(x) ==
  x.type = "character_meet"

\* the fields of a character meet that are copied into characterMeets
meetsOf(items) ==
  [i \in 1..Len(items) |->
     [id |-> items[i].id, type |-> items[i].type, times |-> items[i].times]]

\* the merge of the entertainment handler once Promise.all has resolved
mergeEntertainment(rev, park, base, characters) ==
  LET static == getStaticCharacterMeets(park)
      all == static \o (IF base # Null THEN base.entertainment ELSE <<>>) \o characters
      unique == dedupById(all)
      shown == IF Len(unique) = 0 THEN getFallbackEntertainment(rev, park) ELSE unique
  IN [park |-> park,
      entertainment |-> shown,
      characterMeets |-> meetsOf(SelectSeq(shown, isCharacterMeet)),
      sources |-> [base |-> IF base # Null THEN base.source ELSE "fallback",
                   characters |-> IF Len(characters) > 0 THEN "theme_park_iq" ELSE "static",
                   staticCount |-> Len(static)],
      totalItems |-> Len(shown)]

\* the body of the character-meets handler after its scrape: static and live
\* meets, deduplicated
combineCharacterMeets(park, live) ==
  LET static == getStaticCharacterMeets(park)
      unique == dedupById(static \o live)
  IN [park |-> park,
      characterMeets |-> unique,
      sources |-> [static |-> Len(static), live |-> Len(live), total |-> Len(unique)]]

\* ---------------------------------------------------------- circuit breaker
errorThresholdPercentage == 50
resetTimeout == 30000

\* circuitBreakerOptions.timeout
breakerTimeout(rev) ==
  IF rev = "v31" THEN 5000 ELSE 8000

\* a breaker on which no fallback function was registered
fallbackUnregistered == FALSE

\* waitTimesBreaker.fallback(...) registers a fallback function
fallbackRegistered == TRUE

\* the breaker as constructed: closed, empty rolling window; `parks` are the
\* first arguments of the fire() calls whose failures the window counts
newBreaker ==
  [state |-> "CLOSED", pendingClose |-> FALSE, fires |-> 0, failures |-> 0,
   parks |-> {}]

\* a breaker that short-circuits only the calls behind a pending trial
shortCircuitsHalfOpenOnly(b) ==
  b.state = "HALF_OPEN" /\ ~b.pendingClose

\* fire() short-circuits when the breaker is not closed and no trial is due
shortCircuits(b) ==
  b.state # "CLOSED" /\ ~b.pendingClose

\* every fire() is counted in the rolling window
countFire(b) ==
  [b EXCEPT !.fires = @ + 1]

\* a fire() that lets the call through and leaves the trial due
admitKeepingTrial(b) ==
  b

\* fire() lets the call through; a pending trial is consumed
admit(b) ==
  [b EXCEPT !.pendingClose = FALSE]

open(b) ==
  IF b.state # "OPEN"
  THEN [b EXCEPT !.state = "OPEN", !.pendingClose = FALSE]
  ELSE b

close(b) ==
  IF b.state # "CLOSED"
  THEN [b EXCEPT !.state = "CLOSED", !.pendingClose = FALSE]
  ELSE b

\* the reset timer fires
halfOpen(b) ==
  [b EXCEPT !.state = "HALF_OPEN", !.pendingClose = TRUE]

\* failures / fires * 100 > errorThresholdPercentage
overThreshold(failures, fires) ==
  failures * 100 > errorThresholdPercentage * fires

\* the wrapped function resolved before the breaker's timeout
onSuccess(b) ==
  IF b.state = "HALF_OPEN" THEN close(b) ELSE b

\* a breaker that opens on any failure, whatever the error rate
onFailureAnyRate(b) ==
  open([b EXCEPT !.failures = @ + 1])

\* the wrapped function rejected, or the breaker's timeout fired
onFailure(b) ==
  LET c == [b EXCEPT !.failures = @ + 1]
  IN IF overThreshold(c.failures, c.fires) \/ c.state = "HALF_OPEN"
     THEN open(c)
     ELSE c

\* the failure just counted was a failure of fire(park)
failedFor(b, park) ==
  [b EXCEPT !.parks = @ \cup {park}]

\* -------------------------------------------------------------------- state
VARIABLES
  rev,        \* the revision of the server that is running
  now,        \* logical clock read by new Date()
  breaker,    \* waitTimesBreaker: state, pending trial, rolling window counts
  dataState,  \* dataState.lastSuccessfulFetch / dataState.errorCounts
  caches,     \* the three NodeCaches: entries (value, livetime) by park
  clock,      \* Date.now() as the caches read it: ms since the process started
  req,        \* the acquisition running for the request in each slot
  out,        \* the HTTP response being written, if any
  fw,         \* one stand-alone fetchWithRetry call
  call,       \* one stand-alone call of a function of the server
  hits        \* the rate limiter's store: requests counted per client IP

vars == <<rev, now, breaker, dataState, caches, clock, req, out, fw, call, hits>>

Slots == 1..MaxSlots

\* a timestamp that was never set (null)
NoTime == 0

newDataState ==
  [lastSuccessfulFetch |-> [parkHours |-> NoTime, entertainment |-> NoTime, waitTimes |-> NoTime],
   errorCounts |-> [parkHours |-> 0, entertainment |-> 0, waitTimes |-> 0]]

\* an empty NodeCache
emptyCache == [k \in {} |-> Null]

\* stdTTL of the NodeCache of each domain, in seconds (the same in v1)
stdTTL(domain) ==
  CASE domain = "parkHours" -> 3600
    [] domain = "entertainment" -> 1800
    [] domain = "waitTimes" -> 300

\* the time at which an entry set now stops being served, in ms
livetime(ttl) ==
  clock + ttl * 1000

\* cache.set(key, value) with no ttl argument: the entry is replaced and its
\* livetime starts again from stdTTL
\* a set that keeps the entry a key already has
cacheSetIfAbsent(domain, key, value) ==
  [caches EXCEPT ![domain] =
     [k \in DOMAIN @ \cup {key} |->
        IF k = key /\ k \notin DOMAIN @
        THEN [v |-> value, t |-> livetime(stdTTL(domain))] ELSE @[k]]]

cacheSet(domain, key, value) ==
  [caches EXCEPT ![domain] =
     [k \in DOMAIN @ \cup {key} |->
        IF k = key THEN [v |-> value, t |-> livetime(stdTTL(domain))] ELSE @[k]]]

\* a check that already drops an entry at the instant its livetime is reached
expiredAtLivetime(entry) ==
  entry.t <= clock

\* the check get() makes on the entry it found
expired(entry) ==
  entry.t < clock

\* a cache whose get always misses
cacheMisses(cache, key) ==
  FALSE

\* cache.get(key) returns an entry
cacheHas(cache, key) ==
  key \in DOMAIN cache /\ ~expired(cache[key])

\* the value cache.get(key) returns on a hit
cacheGet(cache, key) ==
  cache[key].v

cacheDel(cache, key) ==
  [k \in DOMAIN cache \ {key} |-> cache[k]]

\* a slot in which no acquisition is running
idleSlot ==
  [route |-> "none", park |-> "", apc |-> "none", src |-> 0, retries |-> 0,
   timedOut |-> FALSE, trial |-> FALSE, log |-> <<>>,
   base |-> "none", scrape |-> "none", characters |-> <<>>]

running(s) ==
  s.apc \in {"inflight", "sleeping"}

\* slots are interchangeable: a new request takes the first free one
firstFree(r) ==
  /\ ~running(req[r])
  /\ \A q \in Slots : q < r => running(req[q])

parkRank(park) ==
  CASE park = "magic-kingdom" -> 1
    [] park = "epcot" -> 2
    [] park = "hollywood-studios" -> 3
    [] park = "animal-kingdom" -> 4
    [] OTHER -> 5

\* the position of an acquisition among the running ones: the server keeps no
\* order among its concurrent requests, the slots list them by what they are
\* doing, idle slots last
slotRank(s) ==
  IF ~running(s) THEN 0
  ELSE 1 + (IF s.apc = "sleeping" THEN 1 ELSE 0)
         + 2 * (IF s.timedOut THEN 1 ELSE 0)
         + 4 * (IF s.trial THEN 1 ELSE 0)
         + 8 * (IF s.route = "parkHours" THEN 1 ELSE 0)
         + 16 * s.retries
         + 160 * s.src
         + 1600 * parkRank(s.park)
         + 16000 * (IF s.scrape = "settled" THEN 1 ELSE 0)
         + 32000 * Len(s.characters)

inOrder(slots) ==
  SortSeq(slots, LAMBDA a, b : slotRank(a) > slotRank(b))

\* slot r now holds acquisition s
place(r, s) ==
  inOrder([req EXCEPT ![r] = s])

\* the wrapped function of this slot runs inside a fire() that has not settled
pending(s) ==
  running(s) /\ s.route = "waitTimes" /\ ~s.timedOut

\* no response is being written
NoResponse ==
  [route |-> "none", park |-> "", status |-> 0, result |-> Null,
   fromCache |-> FALSE, fire |-> "none", how |-> "none", trial |-> FALSE,
   log |-> <<>>, cacheRead |-> FALSE, cacheWrote |-> FALSE]

\* res.status(code).json(...)
response(route, park, status, result) ==
  [NoResponse EXCEPT !.route = route, !.park = park,
                     !.status = status, !.result = result]

\* no function call under study
noCall ==
  [fn |-> "none", pc |-> "none"]

\* no fetchWithRetry call under study
noFetch ==
  [pc |-> "none", options |-> [timeout |-> 0], r |-> 0, retries |-> 0,
   gets |-> 0, timeout |-> 0, last |-> NetworkError]

\* the clients, by req.ip
ClientIps == {"198.51.100.1", "198.51.100.2"}

\* the limiter's store at the start of a window
noHits ==
  [ip \in ClientIps |-> 0]

Init ==
  /\ rev \in Revs
  /\ now = 0
  /\ breaker = newBreaker
  /\ dataState = newDataState
  /\ caches = [waitTimes |-> emptyCache, parkHours |-> emptyCache,
               entertainment |-> emptyCache]
  /\ clock = 0
  /\ req = [r \in Slots |-> idleSlot]
  /\ hits = noHits
  /\ out = NoResponse
  /\ fw = noFetch
  /\ call = noCall

\* ------------------------------------------------------------ HTTP requests
\* one axios.get as it leaves the process
getRequest(i, src, timeout) ==
  [src |-> i, host |-> src.url.host, timeout |-> timeout,
   parkId |-> IF src.url.host = "queue-times.com" THEN src.url.id ELSE 0,
   slug |-> IF src.url.host = "queue-times.com" THEN "" ELSE src.url.id]

\* the GET the wait-times loop issues for source i
waitTimesGet(rv, park, i) ==
  LET src == sourcesInOrder(rv, park)[i]
  IN getRequest(i, src,
       IF rv = "v1" THEN src.timeout
       ELSE requestTimeout(rv, [timeout |-> src.timeout]))

\* the GET the park-hours loop issues for source i
parkHoursGet(rv, park, i) ==
  LET src == parkHoursSources(rv, park)[i]
  IN getRequest(i, src, src.timeout)

\* ---------------------------------------------------- breaker result paths
\* the response of the wait-times route (v31, v32) once its handler has
\* resumed with the value fire() resolved to: the value is cached, status 200
answered(s, value, how) ==
  [response("waitTimes", s.park, 200, value) EXCEPT
     !.fire = "resolved", !.how = how, !.trial = s.trial, !.log = s.log,
     !.cacheRead = TRUE, !.cacheWrote = TRUE]

\* fire() rejected: the catch block of the handler answers 500
failed(s, how) ==
  [response("waitTimes", s.park, 500, Null) EXCEPT
     !.fire = "rejected", !.how = how, !.trial = s.trial, !.log = s.log,
     !.cacheRead = TRUE]

\* a fallback function that counts itself as an error
fallbackEffectCounting(ds) ==
  [ds EXCEPT !.errorCounts.waitTimes = @ + 1]

\* what the registered fallback function does to dataState: nothing
fallbackEffect(ds) ==
  ds

\* the breaker falls back: how is "short" (short circuit), "failure" (the
\* wrapped function threw) or "timeout"
fellBack(rv, s, how) ==
  IF fallbackRegistered
  THEN answered(s, getFallbackWaitTimes(rv, s.park), how)
  ELSE failed(s, how)

\* caches after the handler resumed from a fire() that fell back
cachedFallback(rv, park) ==
  IF fallbackRegistered
  THEN cacheSet("waitTimes", park, getFallbackWaitTimes(rv, park))
  ELSE caches

\* ------------------------------------------------------- wait-times route
\* GET /api/disney/wait-times/:park? up to its first suspension point
waitTimesRoute(r, param) ==
  /\ out = NoResponse
  /\ now < MaxRequests
  /\ firstFree(r)
  /\ LET park == defaultPark(param)
         s0 == [idleSlot EXCEPT !.route = "waitTimes", !.park = park]
         s1 == [s0 EXCEPT !.apc = "inflight", !.src = 1,
                          !.log = <<waitTimesGet(rev, park, 1)>>]
     IN /\ now' = now + 1
        /\ IF ~validatePark(rev, park)
           THEN /\ out' = response("waitTimes", park, 400, Null)
                /\ UNCHANGED <<breaker, caches, req, dataState>>
           ELSE IF cacheHas(caches.waitTimes, park)
           THEN /\ out' = [response("waitTimes", park, 200, cacheGet(caches.waitTimes, park))
                             EXCEPT !.fromCache = TRUE, !.cacheRead = TRUE]
                /\ UNCHANGED <<breaker, caches, req, dataState>>
           ELSE IF rev = "v1"
           THEN /\ req' = place(r, s1)
                /\ UNCHANGED <<breaker, caches, out, dataState>>
           ELSE IF shortCircuits(breaker)
           THEN /\ breaker' = countFire(breaker)
                /\ out' = fellBack(rev, s0, "short")
                /\ caches' = cachedFallback(rev, park)
                /\ dataState' = fallbackEffect(dataState)
                /\ UNCHANGED req
           ELSE /\ breaker' = admit(countFire(breaker))
                /\ req' = place(r,
                            [s1 EXCEPT !.retries = BreakerRetries,
                                       !.trial = (breaker.state = "HALF_OPEN")])
                /\ UNCHANGED <<caches, out, dataState>>
  /\ UNCHANGED <<call, clock, rev, fw>>

\* the route for a client that stays below the rate limit
StartWaitTimes(r, param) ==
  /\ waitTimesRoute(r, param)
  /\ UNCHANGED hits

\* the answer to a GET of the breaker-wrapped wait-times function arrives
WaitTimesResponse(r, resp) ==
  /\ out = NoResponse
  /\ rev \in BreakerRevs
  /\ req[r].route = "waitTimes"
  /\ req[r].apc = "inflight"
  /\ LET s == req[r]
         srcs == sourcesInOrder(rev, s.park)
         what == fetchOutcome(rev, resp, s.retries)
     IN CASE what = "return" ->
               LET value == liveWaitTimes(rev, s.park, srcs[s.src], resp.body)
               IN /\ dataState' = [dataState EXCEPT !.lastSuccessfulFetch.waitTimes = now,
                                                    !.errorCounts.waitTimes = 0]
                  /\ req' = place(r, idleSlot)
                  /\ IF s.timedOut
                     THEN UNCHANGED <<breaker, caches, out>>
                     ELSE /\ breaker' = onSuccess(breaker)
                          /\ out' = answered(s, value, "success")
                          /\ caches' = cacheSet("waitTimes", s.park, value)
          [] what = "retry" ->
               /\ req' = place(r, [s EXCEPT !.apc = "sleeping"])
               /\ UNCHANGED <<breaker, dataState, caches, out>>
          [] OTHER ->
               /\ dataState' =
                    LET counted == [dataState EXCEPT !.errorCounts.waitTimes = @ + 1]
                    IN IF s.src < Len(srcs) \/ s.timedOut THEN counted
                       ELSE fallbackEffect(counted)
               /\ IF s.src < Len(srcs)
                  THEN /\ req' = place(r,
                                   [s EXCEPT !.src = @ + 1, !.retries = BreakerRetries,
                                             !.log = Append(@, waitTimesGet(rev, s.park, s.src + 1))])
                       /\ UNCHANGED <<breaker, caches, out>>
                  ELSE /\ req' = place(r, idleSlot)
                       /\ IF s.timedOut
                          THEN UNCHANGED <<breaker, caches, out>>
                          ELSE /\ breaker' = failedFor(onFailure(breaker), s.park)
                               /\ out' = fellBack(rev, s, "failure")
                               /\ caches' = cachedFallback(rev, s.park)
  /\ UNCHANGED <<hits, call, clock, rev, now, fw>>

\* the fixed delay before a retry has passed: fetchWithRetry calls itself
RetryDelayElapses(r) ==
  /\ out = NoResponse
  /\ req[r].apc = "sleeping"
  /\ req' = place(r,
              [req[r] EXCEPT !.apc = "inflight", !.retries = nextRetries(@),
                        !.log = Append(@, waitTimesGet(rev, req[r].park, req[r].src))])
  /\ UNCHANGED <<hits, call, clock, rev, now, breaker, dataState, caches, out, fw>>

\* the breaker's own timeout fires while the wrapped function is running;
\* the function itself is not cancelled
BreakerTimeout(r) ==
  /\ out = NoResponse
  /\ rev \in BreakerRevs
  /\ pending(req[r])
  /\ breaker' = failedFor(onFailure(breaker), req[r].park)
  /\ out' = fellBack(rev, req[r], "timeout")
  /\ caches' = cachedFallback(rev, req[r].park)
  /\ req' = place(r, [req[r] EXCEPT !.timedOut = TRUE])
  /\ dataState' = fallbackEffect(dataState)
  /\ UNCHANGED <<hits, call, clock, rev, now, fw>>

\* the reset timer armed by the opening fires.  No call is admitted while the
\* breaker is open, so a call that is still pending was admitted before the
\* opening and has outlived resetTimeout without hitting the breaker's timeout.
ResetTimeoutElapses ==
  /\ out = NoResponse
  /\ breaker.state = "OPEN"
  /\ (\E r \in Slots : pending(req[r])) => breakerTimeout(rev) >= resetTimeout
  /\ breaker' = halfOpen(breaker)
  /\ UNCHANGED <<hits, call, clock, rev, now, dataState, caches, req, out, fw>>

\* the rolling window of the breaker (longer than breakerTimeout, shorter
\* than resetTimeout) passes without a fire: its counts are dropped
WindowRoll ==
  /\ out = NoResponse
  /\ breaker.fires + breaker.failures > 0
  /\ \A r \in Slots : ~pending(req[r])
  /\ breaker' = [breaker EXCEPT !.fires = 0, !.failures = 0, !.parks = {}]
  /\ UNCHANGED <<hits, call, clock, rev, now, dataState, caches, req, out, fw>>

\* fetchWaitTimes of v1: the answer to the GET of the current source arrives
WaitTimesResponseV1(r, resp) ==
  /\ out = NoResponse
  /\ rev = "v1"
  /\ req[r].route = "waitTimes"
  /\ req[r].apc = "inflight"
  /\ LET s == req[r]
         srcs == sourcesInOrder(rev, s.park)
         ok(value) == [response("waitTimes", s.park, 200, value) EXCEPT
                         !.log = s.log, !.cacheRead = TRUE]
     IN IF /\ axiosResolves(resp)
           /\ truthy(resp.body)
           /\ ~parseThrows(rev, resp.body, srcs[s.src].parser)
        THEN LET value == liveWaitTimes(rev, s.park, srcs[s.src], resp.body)
             IN /\ req' = place(r, idleSlot)
                /\ out' = [ok(value) EXCEPT !.cacheWrote = TRUE]
                /\ caches' = cacheSet("waitTimes", s.park, value)
        ELSE IF s.src < Len(srcs)
        THEN /\ req' = place(r,
                         [s EXCEPT !.src = @ + 1,
                                   !.log = Append(@, waitTimesGet(rev, s.park, s.src + 1))])
             /\ UNCHANGED <<caches, out>>
        ELSE /\ req' = place(r, idleSlot)
             /\ out' = ok(getFallbackWaitTimes(rev, s.park))
             /\ UNCHANGED caches
  /\ UNCHANGED <<hits, call, clock, rev, now, breaker, dataState, fw>>

\* ------------------------------------------------------- park-hours route
\* GET /api/disney/park-hours/:park (v1: :park?) up to its first suspension
StartParkHours(r, param) ==
  /\ out = NoResponse
  /\ now < MaxRequests
  /\ firstFree(r)
  /\ param = "" => rev = "v1"
  /\ LET park == defaultPark(param)
     IN /\ now' = now + 1
        /\ IF ~validatePark(rev, park)
           THEN /\ out' = response("parkHours", park, 400, Null)
                /\ UNCHANGED req
           ELSE IF cacheHas(caches.parkHours, park)
           THEN /\ out' = [response("parkHours", park, 200, cacheGet(caches.parkHours, park))
                             EXCEPT !.fromCache = TRUE, !.cacheRead = TRUE]
                /\ UNCHANGED req
           ELSE /\ req' = place(r,
                            [idleSlot EXCEPT !.route = "parkHours", !.park = park,
                                             !.apc = "inflight", !.src = 1,
                                             !.log = <<parkHoursGet(rev, park, 1)>>])
                /\ UNCHANGED out
  /\ UNCHANGED <<hits, call, clock, rev, breaker, dataState, caches, fw>>

\* the answer to the GET of the current park-hours source arrives; the
\* acquisition returns and the handler answers, or the next source is tried
ParkHoursResponse(r, resp) ==
  /\ out = NoResponse
  /\ req[r].route = "parkHours"
  /\ req[r].apc = "inflight"
  /\ LET s == req[r]
         srcs == parkHoursSources(rev, s.park)
         live == liveParkHours(rev, s.park, srcs[s.src], resp.body)
         ok(value) == [response("parkHours", s.park, 200, value) EXCEPT
                         !.log = s.log, !.cacheRead = TRUE]
         static == ok(getStaticParkHours(rev, s.park))
     IN IF hoursAccepted(rev, resp)
        THEN /\ req' = place(r, idleSlot)
             /\ IF live # Null
                THEN /\ out' = [ok(live) EXCEPT !.cacheWrote = TRUE]
                     /\ caches' = cacheSet("parkHours", s.park, live)
                     /\ dataState' = IF rev = "v1" THEN dataState
                                     ELSE [dataState EXCEPT !.lastSuccessfulFetch.parkHours = now]
                ELSE /\ out' = static
                     /\ UNCHANGED <<caches, dataState>>
        ELSE IF rev # "v31" /\ s.src < Len(srcs)
        THEN /\ req' = place(r,
                         [s EXCEPT !.src = @ + 1,
                                   !.log = Append(@, parkHoursGet(rev, s.park, s.src + 1))])
             /\ UNCHANGED <<caches, dataState, out>>
        ELSE /\ req' = place(r, idleSlot)
             /\ out' = static
             /\ UNCHANGED <<caches, dataState>>
  /\ UNCHANGED <<hits, call, clock, rev, now, breaker, fw>>

\* ---------------------------------------------------- entertainment route
\* a race: the handler resumes as soon as one of the two promises settles
anySettled(s) ==
  s.base = "settled" \/ s.scrape = "settled"

\* a Promise.all that never resolves
neverSettled(s) ==
  FALSE

\* both promises handed to Promise.all have settled
allSettled(s) ==
  s.base = "settled" /\ s.scrape = "settled"

\* GET /api/disney/entertainment/:park? (v31, v32) up to its await: the
\* placeholder fetchEntertainmentData has resolved, the character scrape has
\* resolved for every park but Magic Kingdom, for which its GET is in flight
StartEntertainment(r, param) ==
  /\ out = NoResponse
  /\ rev \in BreakerRevs
  /\ now < MaxRequests
  /\ firstFree(r)
  /\ LET park == defaultPark(param)
         scraped == park = "magic-kingdom"
     IN /\ now' = now + 1
        /\ IF ~validatePark(rev, park)
           THEN /\ out' = response("entertainment", park, 400, Null)
                /\ UNCHANGED req
           ELSE IF cacheHas(caches.entertainment, park)
           THEN /\ out' = [response("entertainment", park, 200, cacheGet(caches.entertainment, park))
                             EXCEPT !.fromCache = TRUE, !.cacheRead = TRUE]
                /\ UNCHANGED req
           ELSE /\ req' = place(r,
                            [idleSlot EXCEPT
                               !.route = "entertainment", !.park = park,
                               !.apc = "inflight", !.base = "settled",
                               !.scrape = IF scraped THEN "pending" ELSE "settled",
                               !.log = IF scraped
                                       THEN <<getRequest(1, scrapeSource, scrapeSource.timeout)>>
                                       ELSE <<>>])
                /\ UNCHANGED out
  /\ UNCHANGED <<hits, call, clock, rev, breaker, dataState, caches, fw>>

\* the answer to the GET of the character scrape arrives (or axios gives up):
\* scrapeThemeParkIQCharacters resolves
ScrapeResponse(r, resp) ==
  /\ out = NoResponse
  /\ req[r].route = "entertainment"
  /\ req[r].scrape = "pending"
  /\ req' = place(r, [req[r] EXCEPT !.scrape = "settled",
                                    !.characters = scrapeCharacters(resp)])
  /\ UNCHANGED <<hits, call, clock, rev, now, breaker, dataState, caches, out, fw>>

\* Promise.all has resolved: the handler merges, caches and answers
EntertainmentMerge(r) ==
  /\ out = NoResponse
  /\ req[r].route = "entertainment"
  /\ running(req[r])
  /\ allSettled(req[r])
  /\ LET s == req[r]
         result == mergeEntertainment(rev, s.park, fetchEntertainmentData(s.park),
                                     s.characters)
     IN /\ out' = [response("entertainment", s.park, 200, result) EXCEPT
                     !.log = s.log, !.cacheRead = TRUE, !.cacheWrote = TRUE]
        /\ caches' = cacheSet("entertainment", s.park, result)
        /\ dataState' = [dataState EXCEPT !.lastSuccessfulFetch.entertainment = now]
        /\ req' = place(r, idleSlot)
  /\ UNCHANGED <<hits, call, clock, rev, now, breaker, fw>>

\* ------------------------------------------------------------- cache reset
\* the own properties of `caches`
cacheTypes ==
  {"parkHours", "entertainment", "waitTimes"}

\* the :type segments the modelled clients send: the three caches, a name
\* that is no property of `caches`, and a name every object inherits
ResetTypes ==
  cacheTypes \cup {"bogus", "constructor"}

\* caches[type]: an own property (a NodeCache), an inherited property of the
\* object literal (truthy, but no NodeCache), or undefined
cachesProperty(type) ==
  CASE type \in cacheTypes -> "cache"
    [] type \in {"constructor", "toString", "hasOwnProperty", "valueOf"} -> "inherited"
    [] OTHER -> "undefined"

\* POST /api/cache/reset/:type (v31, v32).  With an inherited property
\* caches[type].keys() throws and the error middleware answers 500.
CacheReset(type) ==
  /\ out = NoResponse
  /\ rev \in BreakerRevs
  /\ now < MaxRequests
  /\ now' = now + 1
  /\ LET found == cachesProperty(type)
     IN CASE found = "cache" ->
               /\ out' = response("cacheReset", type, 200,
                                  [source |-> "reset",
                                   clearedKeys |-> Cardinality(DOMAIN caches[type])])
               /\ caches' = [caches EXCEPT ![type] = emptyCache]
          [] found = "inherited" ->
               /\ out' = response("cacheReset", type, 500, Null)
               /\ UNCHANGED caches
          [] OTHER ->
               /\ out' = response("cacheReset", type, 400, Null)
               /\ UNCHANGED caches
  /\ UNCHANGED <<hits, call, clock, rev, breaker, dataState, req, fw>>

\* ------------------------------------------------------------------ shared
\* the TTL of an entry runs out (stdTTL of the NodeCache of that domain)
CacheExpire(domain, key) ==
  /\ out = NoResponse
  /\ key \in DOMAIN caches[domain]
  /\ caches' = [caches EXCEPT ![domain] = cacheDel(@, key)]
  /\ UNCHANGED <<hits, call, clock, rev, now, breaker, dataState, req, out, fw>>

\* the response has been written; the request is over
Deliver ==
  /\ out # NoResponse
  /\ out' = NoResponse
  /\ UNCHANGED <<hits, call, clock, rev, now, breaker, dataState, caches, req, fw>>

\* ----------------------------------------------------------- specifications
RequestedParks == {defaultPark(p) : p \in ParkParams}

\* the wait-times route with its breaker
Next ==
  \/ \E r \in Slots, param \in WaitTimesParams : StartWaitTimes(r, param)
  \/ \E r \in Slots, resp \in Responses(WaitBodies) : WaitTimesResponse(r, resp)
  \/ \E r \in Slots : RetryDelayElapses(r)
  \/ \E r \in Slots : BreakerTimeout(r)
  \/ ResetTimeoutElapses
  \/ WindowRoll
  \/ \E r \in Slots, resp \in Responses(WaitBodies) : WaitTimesResponseV1(r, resp)
  \/ \E key \in RequestedParks : CacheExpire("waitTimes", key)
  \/ Deliver

Spec == Init /\ [][Next]_vars

\* the park-hours route
HoursNext ==
  \/ \E r \in Slots, param \in ParkParams : StartParkHours(r, param)
  \/ \E r \in Slots, resp \in Responses(HoursBodies) : ParkHoursResponse(r, resp)
  \/ \E key \in RequestedParks : CacheExpire("parkHours", key)
  \/ Deliver

HoursSpec == Init /\ [][HoursNext]_vars

\* the entertainment route and the cache reset (v31, v32)
EntertainmentNext ==
  \/ \E r \in Slots, param \in ParkParams : StartEntertainment(r, param)
  \/ \E r \in Slots, resp \in Responses(ScrapeBodies) : ScrapeResponse(r, resp)
  \/ \E r \in Slots : EntertainmentMerge(r)
  \/ \E type \in ResetTypes : CacheReset(type)
  \/ \E key \in RequestedParks : CacheExpire("entertainment", key)
  \/ Deliver

EntertainmentInit ==
  /\ Init
  /\ rev \in BreakerRevs

EntertainmentSpec == EntertainmentInit /\ [][EntertainmentNext]_vars

\* the clients under study send at most `limit` requests
admits(limit) ==
  now < limit

\* the wait-times route of v3.1 and v3.2 asked for two parks
SharedParks == {"magic-kingdom", "epcot"}

SharedInit ==
  /\ Init
  /\ rev \in BreakerRevs

SharedNext ==
  \/ \E r \in Slots, param \in SharedParks :
       admits(MaxSharedRequests) /\ StartWaitTimes(r, param)
  \/ \E r \in Slots, resp \in Responses(WaitBodies) : WaitTimesResponse(r, resp)
  \/ \E r \in Slots : RetryDelayElapses(r)
  \/ \E r \in Slots : BreakerTimeout(r)
  \/ ResetTimeoutElapses
  \/ WindowRoll
  \/ \E key \in SharedParks : CacheExpire("waitTimes", key)
  \/ Deliver

SharedSpec == SharedInit /\ [][SharedNext]_vars

\* ------------------------------------------------------------ rate limiter
\* `max` of the limiter mounted on /api/
rateMax(rv) ==
  IF rv = "v1" THEN 200 ELSE 100

\* express-rate-limit counts the request, then compares the count with max
overLimit(rv, count) ==
  count > rateMax(rv)

\* the limiter's answer: status 429 with the configured error object
tooManyRequests(route, park) ==
  response(route, park, 429, Null)

\* GET /api/disney/wait-times/:park? from this client: app.use('/api/', ...)
\* runs the limiter before the route
LimitedWaitTimes(ip, r, param) ==
  /\ out = NoResponse
  /\ admits(MaxRateRequests)
  /\ hits[ip] <= rateMax(rev)
  /\ hits' = [hits EXCEPT ![ip] = @ + 1]
  /\ IF overLimit(rev, hits[ip] + 1)
     THEN /\ firstFree(r)
          /\ out' = tooManyRequests("waitTimes", defaultPark(param))
          /\ UNCHANGED <<rev, now, breaker, dataState, caches, clock, req, fw, call>>
     ELSE waitTimesRoute(r, param)

\* windowMs has passed: the store forgets every count
WindowResets ==
  /\ out = NoResponse
  /\ hits # noHits
  /\ hits' = noHits
  /\ UNCHANGED <<rev, now, breaker, dataState, caches, clock, req, out, fw, call>>

\* each client has sent no request in this window yet, or all but one of
\* those it is allowed (to routes that cache nothing)
RateInit ==
  /\ rev \in Revs
  /\ now = 0
  /\ breaker = newBreaker
  /\ dataState = newDataState
  /\ caches = [waitTimes |-> emptyCache, parkHours |-> emptyCache,
               entertainment |-> emptyCache]
  /\ clock = 0
  /\ req = [r \in Slots |-> idleSlot]
  /\ out = NoResponse
  /\ fw = noFetch
  /\ call = noCall
  /\ hits \in [ClientIps -> {0, rateMax(rev) - 1}]

RateNext ==
  \/ \E ip \in ClientIps, r \in Slots, param \in WaitTimesParams :
       LimitedWaitTimes(ip, r, param)
  \/ \E r \in Slots, resp \in Responses(WaitBodies) : WaitTimesResponse(r, resp)
  \/ \E r \in Slots : RetryDelayElapses(r)
  \/ \E r \in Slots : BreakerTimeout(r)
  \/ ResetTimeoutElapses
  \/ WindowRoll
  \/ \E r \in Slots, resp \in Responses(WaitBodies) : WaitTimesResponseV1(r, resp)
  \/ \E key \in RequestedParks : CacheExpire("waitTimes", key)
  \/ Deliver
  \/ WindowResets

RateSpec == RateInit /\ [][RateNext]_vars

\* the three data routes and the cache reset side by side
ServerStep(limit) ==
  \/ \E r \in Slots, param \in WaitTimesParams : admits(limit) /\ StartWaitTimes(r, param)
  \/ \E r \in Slots, resp \in Responses(WaitBodies) : WaitTimesResponse(r, resp)
  \/ \E r \in Slots : RetryDelayElapses(r)
  \/ \E r \in Slots : BreakerTimeout(r)
  \/ ResetTimeoutElapses
  \/ WindowRoll
  \/ \E r \in Slots, resp \in Responses(WaitBodies) : WaitTimesResponseV1(r, resp)
  \/ \E r \in Slots, param \in WaitTimesParams : admits(limit) /\ StartParkHours(r, param)
  \/ \E r \in Slots, resp \in Responses(HoursBodies) : ParkHoursResponse(r, resp)
  \/ \E r \in Slots, param \in WaitTimesParams : admits(limit) /\ StartEntertainment(r, param)
  \/ \E r \in Slots, resp \in Responses(ScrapeBodies) : ScrapeResponse(r, resp)
  \/ \E r \in Slots : EntertainmentMerge(r)
  \/ \E type \in ResetTypes : admits(limit) /\ CacheReset(type)
  \/ \E domain \in {"waitTimes", "parkHours", "entertainment"}, key \in RequestedParks :
        CacheExpire(domain, key)
  \/ Deliver

ServerNext == ServerStep(MaxServerRequests)

ServerSpec == Init /\ [][ServerNext]_vars

\* ------------------------------------------------------ caches and time
\* the livetimes of the entries the caches hold
livetimes ==
  UNION {{caches[d][k].t : k \in DOMAIN caches[d]} : d \in cacheTypes}

\* the last instant at which a get still serves an entry, and the first at
\* which it does not
instants ==
  UNION {{t, t + 1} : t \in livetimes}

\* time passes up to an instant of interest.  These instants are minutes
\* apart and an acquisition lasts seconds: time is advanced between requests.
Tick ==
  /\ out = NoResponse
  /\ \A r \in Slots : ~running(req[r])
  /\ \E i \in instants : i > clock /\ clock' = i
  /\ UNCHANGED <<hits, call, rev, now, breaker, dataState, caches, req, out, fw>>

\* the periodic check of a NodeCache (checkperiod) deletes what has expired
CheckPeriod(domain) ==
  /\ out = NoResponse
  /\ \E k \in DOMAIN caches[domain] : expired(caches[domain][k])
  /\ caches' = [caches EXCEPT ![domain] =
                  [k \in {x \in DOMAIN @ : ~expired(@[x])} |-> @[k]]]
  /\ UNCHANGED <<hits, call, clock, rev, now, breaker, dataState, req, out, fw>>

\* the three data routes with their caches as time passes
CacheNext ==
  \/ \E r \in Slots, param \in WaitTimesParams :
        admits(MaxCacheRequests) /\ StartWaitTimes(r, param)
  \/ \E r \in Slots, resp \in Responses(WaitBodies) : WaitTimesResponse(r, resp)
  \/ \E r \in Slots : RetryDelayElapses(r)
  \/ \E r \in Slots : BreakerTimeout(r)
  \/ ResetTimeoutElapses
  \/ WindowRoll
  \/ \E r \in Slots, resp \in Responses(WaitBodies) : WaitTimesResponseV1(r, resp)
  \/ \E r \in Slots, param \in WaitTimesParams :
        admits(MaxCacheRequests) /\ StartParkHours(r, param)
  \/ \E r \in Slots, resp \in Responses(HoursBodies) : ParkHoursResponse(r, resp)
  \/ \E r \in Slots, param \in WaitTimesParams :
        admits(MaxCacheRequests) /\ StartEntertainment(r, param)
  \/ \E r \in Slots, resp \in Responses(ScrapeBodies) : ScrapeResponse(r, resp)
  \/ \E r \in Slots : EntertainmentMerge(r)
  \/ Tick
  \/ \E domain \in cacheTypes : CheckPeriod(domain)
  \/ Deliver

CacheSpec == Init /\ [][CacheNext]_vars

\* ------------------------------------------- the aggregation on its own
\* at(x, t): the record x with the times t
at(x, t) ==
  [x EXCEPT !.times = t]

\* records a base fetch can deliver: an id twice with different times, an id
\* of another category, and ids that the static and the scraped lists use
BaseItems ==
  { at(item("happily_ever_after", "fireworks", "base"), "9:00 PM"),
    at(item("happily_ever_after", "fireworks", "base"), "8:00 PM"),
    item("festival_of_fantasy", "parade", "base"),
    at(item("princess_fairytale_hall", "character_meet", "base"), "9:30 AM"),
    at(item("live_mickey", "character_meet", "base"), "noon") }

\* records the scrape can deliver: the same character on two cards
LiveItems ==
  { at(item("live_mickey", "character_meet", "theme_park_iq"), "10:00 AM"),
    at(item("live_mickey", "character_meet", "theme_park_iq"), "11:00 AM"),
    at(item("live_other", "character_meet", "theme_park_iq"), "Check Times") }

listsOf(S) ==
  UNION {[1..n -> S] : n \in 0..MaxList}

\* what the base promise can resolve to
BaseResults ==
  {Null} \cup {[entertainment |-> l, source |-> "base"] : l \in listsOf(BaseItems)}

\* a call of the merge block of the entertainment handler, or of the one of
\* the character-meets handler, with its arguments
mergeCall(rv, park, base, characters) ==
  [fn |-> "mergeEntertainment", pc |-> "ready", park |-> park, base |-> base,
   characters |-> characters, result |-> Null]

meetsCall(rv, park, characters) ==
  [fn |-> "combineCharacterMeets", pc |-> "ready", park |-> park, base |-> Null,
   characters |-> characters, result |-> Null]

\* the merge blocks called for one of these parks
mergeInit(parks) ==
  /\ rev \in BreakerRevs
  /\ now = 0
  /\ breaker = newBreaker
  /\ dataState = newDataState
  /\ caches = [waitTimes |-> emptyCache, parkHours |-> emptyCache,
               entertainment |-> emptyCache]
  /\ clock = 0
  /\ req = [r \in Slots |-> idleSlot]
  /\ hits = noHits
  /\ out = NoResponse
  /\ fw = noFetch
  /\ \E park \in parks, characters \in listsOf(LiveItems) :
       \/ \E base \in BaseResults : call = mergeCall(rev, park, base, characters)
       \/ call = meetsCall(rev, park, characters)

\* validatePark has let the request through: the park is a supported one
MergeInit ==
  mergeInit(validParks)

\* the merge block of the entertainment handler runs
CallMerge ==
  /\ call.fn = "mergeEntertainment"
  /\ call.pc = "ready"
  /\ call' = [call EXCEPT !.pc = "done",
                          !.result = mergeEntertainment(rev, call.park, call.base,
                                                        call.characters)]
  /\ UNCHANGED <<hits, rev, now, breaker, dataState, caches, clock, req, out, fw>>

\* the merge block of the character-meets handler runs
CallCombine ==
  /\ call.fn = "combineCharacterMeets"
  /\ call.pc = "ready"
  /\ call' = [call EXCEPT !.pc = "done",
                          !.result = combineCharacterMeets(call.park, call.characters)]
  /\ UNCHANGED <<hits, rev, now, breaker, dataState, caches, clock, req, out, fw>>

MergeNext ==
  \/ CallMerge
  \/ CallCombine

MergeSpec == MergeInit /\ [][MergeNext]_vars

\* the merge blocks as functions of their arguments, a park name without
\* curated meets included (the handlers never pass one: validatePark answers
\* 400 before)
BlockInit ==
  mergeInit(validParks \cup UnknownParks)

BlockSpec == BlockInit /\ [][MergeNext]_vars

\* ---------------------------------------------- the classifier on its own
\* String.prototype.includes
includes(str, sub) ==
  \E i \in 1..(Len(str) - Len(sub) + 1) : SubSeq(str, i, i + Len(sub) - 1) = sub

\* classifyEntertainment of v1
classifyEntertainment(name) ==
  LET lowerName == toLowerCase(name)
  IN IF includes(lowerName, "parade") THEN "parade"
     ELSE IF includes(lowerName, "fireworks") \/ includes(lowerName, "spectacular")
       THEN "fireworks"
     ELSE IF includes(lowerName, "meet") \/ includes(lowerName, "character")
       THEN "character"
     ELSE "show"

\* names of entertainment items: the four of the documentation and others
\* made of the same words
NameHeads ==
  {"Festival of Fantasy", "Happily Ever After", "Mickey Mouse", "Country Bear",
   "Disney Enchantment", "Move It! Shake It!", "Character", "Main Street"}

NameTails ==
  {"", " Parade", " Fireworks", " Spectacular", " Meet & Greet", " Jamboree",
   " Character Spot", " PARADE"}

EntertainmentNames ==
  {h \o t : h \in NameHeads, t \in NameTails}

classifyCall(name) ==
  [fn |-> "classifyEntertainment", pc |-> "ready", name |-> name, result |-> ""]

ClassifyInit ==
  /\ rev = "v1"
  /\ now = 0
  /\ breaker = newBreaker
  /\ dataState = newDataState
  /\ caches = [waitTimes |-> emptyCache, parkHours |-> emptyCache,
               entertainment |-> emptyCache]
  /\ clock = 0
  /\ req = [r \in Slots |-> idleSlot]
  /\ hits = noHits
  /\ out = NoResponse
  /\ fw = noFetch
  /\ \E name \in EntertainmentNames : call = classifyCall(name)

CallClassify ==
  /\ call.fn = "classifyEntertainment"
  /\ call.pc = "ready"
  /\ call' = [call EXCEPT !.pc = "done", !.result = classifyEntertainment(call.name)]
  /\ UNCHANGED <<hits, rev, now, breaker, dataState, caches, clock, req, out, fw>>

ClassifyNext ==
  CallClassify

ClassifySpec == ClassifyInit /\ [][ClassifyNext]_vars

\* ------------------------------------------ parseWaitTimesData on its own
\* ride objects with every choice of the optional fields present or missing
QueueTimesRides ==
  {[key \in keys |-> Ride1[key]] : keys \in SUBSET {"id", "wait_time", "is_open"}}

WikiRides ==
  {[key \in keys |-> WikiRide1[key]] : keys \in SUBSET {"id", "waitTime", "status"}}

\* object-shaped payloads: an object without `lands`, and `lands` whose rides
\* are objects with fields missing or a null; and arrays of the same
Payloads ==
  {[shape |-> "object"]} \cup
  {[shape |-> "lands", rides |-> l] : l \in listsOf(QueueTimesRides \cup {JsonNull})} \cup
  {[shape |-> "array", rides |-> l] : l \in listsOf(WikiRides \cup {JsonNull})}

\* the parser argument: v1 and v31 have none, v32 passes the source's
Parsers(rv) ==
  IF rv = "v32" THEN {"queue_times", "themeparks_wiki"} ELSE {"queue_times"}

parseCall(data, park, parser) ==
  [fn |-> "parseWaitTimesData", pc |-> "ready", data |-> data, park |-> park,
   parser |-> parser, threw |-> FALSE, result |-> <<>>]

ParseInit ==
  /\ rev \in Revs
  /\ now = 0
  /\ breaker = newBreaker
  /\ dataState = newDataState
  /\ caches = [waitTimes |-> emptyCache, parkHours |-> emptyCache,
               entertainment |-> emptyCache]
  /\ clock = 0
  /\ req = [r \in Slots |-> idleSlot]
  /\ hits = noHits
  /\ out = NoResponse
  /\ fw = noFetch
  /\ \E data \in Payloads, parser \in Parsers(rev) :
       call = parseCall(data, "magic-kingdom", parser)

\* the call returns its list, or the TypeError leaves it
CallParse ==
  /\ call.fn = "parseWaitTimesData"
  /\ call.pc = "ready"
  /\ call' = IF parseThrows(rev, call.data, call.parser)
             THEN [call EXCEPT !.pc = "done", !.threw = TRUE]
             ELSE [call EXCEPT !.pc = "done",
                     !.result = parseWaitTimesData(rev, call.data, call.park, call.parser)]
  /\ UNCHANGED <<hits, rev, now, breaker, dataState, caches, clock, req, out, fw>>

ParseNext ==
  CallParse

ParseSpec == ParseInit /\ [][ParseNext]_vars

\* ------------------------------------------------ fetchWithRetry on its own
\* the arguments of the calls under study: options.timeout (0: none given)
\* and the retries argument (Undefined: omitted)
Undefined == 0 - 1
OptionTimeouts == {0, 3000, 5000, 8000}
RetryArgs == {Undefined} \cup (0..MaxRetries)

\* retries = 2 in the parameter list
retriesOrDefault(arg) ==
  IF arg = Undefined THEN DefaultRetries ELSE arg

NoAnswer == [kind |-> "none", status |-> 0, body |-> [shape |-> "empty"]]

\* fetchWithRetry(url, options, arg) up to its first axios.get
fetchCall(rv, options, arg) ==
  [pc |-> "inflight", options |-> options, r |-> retriesOrDefault(arg),
   retries |-> retriesOrDefault(arg), gets |-> 1,
   timeout |-> requestTimeout(rv, options), last |-> NoAnswer]

FetchInit ==
  /\ rev \in BreakerRevs
  /\ now = 0
  /\ breaker = newBreaker
  /\ dataState = newDataState
  /\ caches = [waitTimes |-> emptyCache, parkHours |-> emptyCache,
               entertainment |-> emptyCache]
  /\ clock = 0
  /\ req = [r \in Slots |-> idleSlot]
  /\ hits = noHits
  /\ out = NoResponse
  /\ \E o \in OptionTimeouts, a \in RetryArgs : fw = fetchCall(rev, [timeout |-> o], a)
  /\ call = noCall

\* the answer to the pending GET arrives (or axios gives up)
FetchResponse(resp) ==
  /\ fw.pc = "inflight"
  /\ LET what == fetchOutcome(rev, resp, fw.retries)
     IN fw' = [fw EXCEPT !.last = resp,
                         !.pc = CASE what = "return" -> "returned"
                                  [] what = "retry" -> "sleeping"
                                  [] OTHER -> "thrown"]
  /\ UNCHANGED <<hits, call, clock, rev, now, breaker, dataState, caches, req, out>>

\* the fixed delay has passed: the recursive call issues the next GET
FetchDelay ==
  /\ fw.pc = "sleeping"
  /\ fw' = [fw EXCEPT !.pc = "inflight", !.retries = nextRetries(@),
                      !.gets = @ + 1,
                      !.timeout = requestTimeout(rev, fw.options)]
  /\ UNCHANGED <<hits, call, clock, rev, now, breaker, dataState, caches, req, out>>

FetchNext ==
  \/ \E resp \in Responses(WaitBodies) : FetchResponse(resp)
  \/ FetchDelay

\* axios settles every request within its timeout and timers fire
FetchSpec == FetchInit /\ [][FetchNext]_vars /\ WF_vars(FetchNext)

\* ------------------------------------------------------------------ claims
\* a response of the wait-times route produced by waitTimesBreaker.fire
fired ==
  out.route = "waitTimes" /\ out.fire # "none"

isList(x) ==
  DOMAIN x = 1..Len(x)

\* C1: for each supported park and whatever the upstreams answer and the
\* breaker's state is, waitTimesBreaker.fire(park) resolves, never rejects,
\* and its result carries a list of attractions that is non-empty when the
\* result is the fallback.
C1_FireAlwaysResolves ==
  /\ rev \in BreakerRevs =>
       \A p \in validParks : Len(getFallbackWaitTimes(rev, p).attractions) > 0
  /\ fired =>
       /\ out.fire = "resolved"
       /\ out.park \in validParks
       /\ "attractions" \in DOMAIN out.result
       /\ isList(out.result.attractions)
       /\ out.result.source = "fallback" => Len(out.result.attractions) > 0

\* witness of C1: the breaker's timeout fired during the trial call of a
\* half-open breaker and the caller is answered by the fallback
C1_Witness ==
  /\ fired
  /\ out.how = "timeout"
  /\ out.trial
  /\ out.fire = "resolved"
  /\ out.result.source = "fallback"
  /\ Len(out.result.attractions) > 0

\* C2 (as claimed): when every wait-times source fails for magic-kingdom the
\* caller gets source "fallback", a non-empty attractions list and a
\* freshnessScore equal to 0.
C2_FallbackFreshnessZero ==
  (fired /\ out.how = "failure" /\ out.park = "magic-kingdom") =>
    /\ out.result.source = "fallback"
    /\ Len(out.result.attractions) > 0
    /\ "freshnessScore" \in DOMAIN out.result
    /\ out.result.freshnessScore = 0

\* C3: the breaker changes state only CLOSED -> OPEN with an error rate of at
\* least 50% in the window, OPEN -> HALF_OPEN by the reset timer with no call
\* of before the opening still pending, HALF_OPEN -> CLOSED when the trial
\* call succeeds, HALF_OPEN -> OPEN when the trial call fails.
C3_BreakerTransitions ==
  [][breaker'.state # breaker.state =>
       \/ /\ breaker.state = "CLOSED"
          /\ breaker'.state = "OPEN"
          /\ breaker'.failures * 100 >= 50 * breaker'.fires
          /\ out'.how \in {"failure", "timeout"}
       \/ /\ breaker.state = "OPEN"
          /\ breaker'.state = "HALF_OPEN"
          /\ breaker'.pendingClose
          /\ \A r \in Slots : ~pending(req[r])
          /\ UNCHANGED <<req, out, now>>
       \/ /\ breaker.state = "HALF_OPEN"
          /\ breaker'.state = "CLOSED"
          /\ out'.how = "success"
          /\ out'.trial
       \/ /\ breaker.state = "HALF_OPEN"
          /\ breaker'.state = "OPEN"
          /\ out'.how \in {"failure", "timeout"}
          /\ out'.trial]_vars

\* witness of C3: the trial call of a half-open breaker has just succeeded and
\* closed it
C3_Witness ==
  /\ fired
  /\ out.trial
  /\ out.how = "success"
  /\ breaker.state = "CLOSED"

\* C4: while the breaker is OPEN (its cooldown has not elapsed) every fire is
\* answered by the fallback and starts no acquisition, so no HTTP request.
C4_OpenShortCircuits ==
  [][(breaker.state = "OPEN" /\ breaker'.fires = breaker.fires + 1) =>
       /\ out'.how = "short"
       /\ out'.fire = "resolved"
       /\ out'.result.source = "fallback"
       /\ out'.log = <<>>
       /\ req' = req]_vars

\* witness of C4: a fire answered while the breaker is open
C4_Witness ==
  /\ fired
  /\ out.how = "short"
  /\ breaker.state = "OPEN"
  /\ breaker.fires > 0

\* C5: an invocation answered by the fallback alone (breaker open, wrapped
\* function never run) leaves dataState.lastSuccessfulFetch.waitTimes and
\* dataState.errorCounts.waitTimes unchanged.
C5_FallbackOnlyFrame ==
  [][(out = NoResponse /\ out'.how = "short") =>
       /\ dataState'.lastSuccessfulFetch.waitTimes = dataState.lastSuccessfulFetch.waitTimes
       /\ dataState'.errorCounts.waitTimes = dataState.errorCounts.waitTimes]_vars

\* witness of C5: a short-circuited answer after the counters have been written
C5_Witness ==
  /\ fired
  /\ out.how = "short"
  /\ dataState.errorCounts.waitTimes > 0
  /\ dataState.lastSuccessfulFetch.waitTimes # NoTime

\* the priority declared for the source with this host
declaredPriority(rv, park, host) ==
  LET decl == waitTimesSources(rv, park)
      i == CHOOSE k \in DOMAIN decl : decl[k].url.host = host
  IN decl[i].priority

\* the acquisitions that are running
runningCalls ==
  Cardinality({r \in Slots : running(req[r])})

\* number of GETs of a log sent to source i
attempts(log, i) ==
  Cardinality({k \in DOMAIN log : log[k].src = i})

\* the order in which a log contacted the sources
inPriorityOrder(rv, park, log) ==
  /\ \A i, j \in DOMAIN log :
       i < j => declaredPriority(rv, park, log[i].host)
                  <= declaredPriority(rv, park, log[j].host)
  /\ \A k \in DOMAIN log :
       /\ attempts(log, log[k].src) <= BreakerRetries + 1
       /\ \A i \in 1..(log[k].src - 1) : attempts(log, i) = BreakerRetries + 1

\* C6: inside the breaker-wrapped operation the sources are contacted in
\* ascending priority order, source k+1 only after source k failed on all its
\* attempts, none after the first success, and the operation fails only when
\* every source has failed.
C6_SourceOrder ==
  /\ [](rev \in BreakerRevs =>
         /\ \A r \in Slots :
              req[r].route = "waitTimes" => inPriorityOrder(rev, req[r].park, req[r].log)
         /\ fired =>
              /\ inPriorityOrder(rev, out.park, out.log)
              /\ out.how = "failure" =>
                   \A i \in DOMAIN sourcesInOrder(rev, out.park) :
                     attempts(out.log, i) = BreakerRetries + 1)
  /\ [][(out = NoResponse /\ out'.how = "success") =>
         /\ runningCalls' = runningCalls - 1
         /\ \A r \in Slots : running(req'[r]) => \E q \in Slots : req'[r] = req[q]]_vars

\* witness of C6: the second source answered after both attempts on the first
\* one failed
C6_Witness ==
  /\ fired
  /\ out.how = "success"
  /\ Len(out.log) = 3
  /\ out.log[3].src = 2

fetchDone ==
  fw.pc \in {"returned", "thrown"}

\* C7: fetchWithRetry(url, options, r) issues at most r+1 GETs (3 with the
\* default, 2 with r = 1), the remaining retries strictly decrease on each
\* retry, it returns on the first successful attempt, rejects with the last
\* error after r+1 failed attempts, and always terminates.
C7_BoundedRetries ==
  /\ [](/\ fw.gets <= fw.r + 1
        /\ fw.pc = "returned" => attemptSucceeds(rev, fw.last)
        /\ fw.pc = "thrown" => fw.gets = fw.r + 1 /\ ~attemptSucceeds(rev, fw.last))
  /\ [][/\ fw'.gets > fw.gets => fw'.retries < fw.retries /\ fw'.gets = fw.gets + 1
        /\ (fw.pc = "inflight" /\ attemptSucceeds(rev, fw'.last)) => fw'.pc = "returned"
        /\ fetchDone => fw' = fw]_vars
  /\ <>fetchDone

\* witness of C7: the default budget is used up, three GETs, the call rejects
C7_Witness ==
  /\ fw.pc = "thrown"
  /\ fw.r = DefaultRetries
  /\ fw.gets = 3

\* C8 (as claimed): an attempt is successful only when the status is 200 and
\* the body is non-empty.
C8_SuccessOnly200 ==
  fw.pc = "returned" =>
    /\ fw.last.status = 200
    /\ fw.last.body.shape # "empty"

\* C9 (as claimed): the timeout declared for a wait-times source and passed to
\* fetchWithRetry is the timeout of that source's HTTP request.
C9_DeclaredTimeoutApplied ==
  rev \in BreakerRevs =>
    \A r \in Slots :
      req[r].route = "waitTimes" =>
        \A k \in DOMAIN req[r].log :
          req[r].log[k].timeout
            = sourcesInOrder(rev, req[r].park)[req[r].log[k].src].timeout

\* C10 (as claimed): a request for a park that is not supported is rejected
\* with a client error before any acquisition: no upstream request, no cache
\* access, never a fallback or live Result.
C10_UnknownParkRejected ==
  /\ \A r \in Slots : running(req[r]) => req[r].park \in validParks
  /\ (out # NoResponse /\ out.park \notin validParks) =>
       /\ out.status = 400
       /\ out.result = Null
       /\ out.log = <<>>
       /\ ~out.cacheRead
       /\ ~out.cacheWrote

\* the upstream ids of the supported parks
supportedParkIds ==
  {getParkId(p) : p \in validParks}

supportedWikiIds ==
  {getThemeParksWikiId(p) : p \in validParks}

\* C11 (as claimed): getParkId and getThemeParksWikiId fail for a park name
\* that is not one of the four supported parks; a request for such a park is
\* never sent upstream under the id of a supported park.
C11_LookupsFailClosed ==
  \A r \in Slots :
    (running(req[r]) /\ req[r].park \notin validParks) =>
      \A k \in DOMAIN req[r].log :
        /\ req[r].log[k].parkId \notin supportedParkIds
        /\ req[r].log[k].slug \notin supportedWikiIds

\* C12 (as claimed, park hours): a successful acquisition sets the domain's
\* lastSuccessfulFetch to the current time and resets its error counter to 0,
\* a failed acquisition increments the domain's error counter.
C12_CountersTrackFetches ==
  [][(/\ rev \in BreakerRevs
      /\ out = NoResponse
      /\ out'.route = "parkHours"
      /\ out'.status = 200
      /\ ~out'.fromCache) =>
       IF out'.cacheWrote
       THEN /\ dataState'.lastSuccessfulFetch.parkHours = now
            /\ dataState'.errorCounts.parkHours = 0
       ELSE dataState'.errorCounts.parkHours = dataState.errorCounts.parkHours + 1]_vars

\* a response of one of the three data handlers is being written
dataResponse ==
  out.route \in {"parkHours", "waitTimes", "entertainment"}

\* C13: for a supported park, whatever the upstreams do (timeout, non-200,
\* malformed or empty body, breaker open), the park-hours, wait-times and
\* entertainment handlers answer with a status below 500 and a Result.
C13_NoServerErrorFromAcquisition ==
  (dataResponse /\ out.park \in validParks) =>
    /\ out.status < 500
    /\ out.result # Null

\* a wait-times request refused by the open breaker is answered 200 with the
\* fallback Result
C13_Witness ==
  /\ fired
  /\ out.how = "short"
  /\ out.park \in validParks
  /\ out.status = 200
  /\ out.result.source = "fallback"

\* the requests whose client is still waiting for its response
awaiting ==
  Cardinality({r \in Slots : running(req[r]) /\ ~req[r].timedOut})

\* the upstream answers (or axios gives up), timers fire, responses are written
Progress ==
  \/ \E r \in Slots, resp \in Responses(WaitBodies) : WaitTimesResponse(r, resp)
  \/ \E r \in Slots : RetryDelayElapses(r)
  \/ \E r \in Slots, resp \in Responses(WaitBodies) : WaitTimesResponseV1(r, resp)
  \/ \E r \in Slots, resp \in Responses(HoursBodies) : ParkHoursResponse(r, resp)
  \/ \E r \in Slots, resp \in Responses(ScrapeBodies) : ScrapeResponse(r, resp)
  \/ \E r \in Slots : EntertainmentMerge(r)
  \/ Deliver

\* the server under an environment in which every GET settles and
\* every timer fires
FairServerNext == ServerStep(MaxFairRequests)

FairServerSpec ==
  /\ Init
  /\ [][FairServerNext]_vars
  /\ WF_vars(Progress)

\* C14: every request eventually receives exactly one response: a request
\* that is waiting is answered after finitely many steps, one response is
\* written at a time, and writing it ends the wait of exactly one request.
C14_ExactlyOneResponse ==
  /\ \A n \in 1..MaxSlots : (awaiting = n) ~> (awaiting < n)
  /\ [][(out = NoResponse /\ out' # NoResponse /\ out'.cacheRead /\ ~out'.fromCache
           /\ out'.how # "short") =>
          awaiting' = awaiting - 1]_vars
  /\ [][awaiting' < awaiting => (awaiting' = awaiting - 1 /\ out = NoResponse /\ out' # NoResponse)]_vars

\* a wait-times request that went through retries and both sources is
\* answered at last
C14_Witness ==
  /\ fired
  /\ out.how = "failure"
  /\ Len(out.log) > BreakerRetries + 1

\* the handler of `domain` answered the request for `park` from its cache and
\* touched nothing else
servedFromCache(domain, park) ==
  /\ out'.status = 200
  /\ out'.result = cacheGet(caches[domain], park)
  /\ out'.log = <<>>
  /\ out'.fire = "none"
  /\ UNCHANGED <<req, breaker, caches, dataState>>

\* C15: when an unexpired entry exists under the key of the requested domain
\* and park, the handler answers from it and performs no upstream request, no
\* breaker invocation, no cache write and no dataState mutation.
C15_CacheHitTouchesNothing ==
  [][\A r \in Slots, param \in WaitTimesParams :
       LET park == defaultPark(param)
       IN /\ (StartWaitTimes(r, param) /\ validatePark(rev, park)
                /\ park \in DOMAIN caches.waitTimes /\ caches.waitTimes[park].t >= clock)
              => servedFromCache("waitTimes", park)
          /\ (StartParkHours(r, param) /\ validatePark(rev, park)
                /\ park \in DOMAIN caches.parkHours /\ caches.parkHours[park].t >= clock)
              => servedFromCache("parkHours", park)
          /\ (StartEntertainment(r, param) /\ validatePark(rev, park)
                /\ park \in DOMAIN caches.entertainment /\ caches.entertainment[park].t >= clock)
              => servedFromCache("entertainment", park)]_vars

\* a wait-times request is answered from the cache while the breaker is open
C15_Witness ==
  /\ out.route = "waitTimes"
  /\ out.fromCache
  /\ out.status = 200
  /\ breaker.state = "OPEN"

\* a handler is answering with a freshly built Result whose source is
\* "fallback"
fallbackAnswer ==
  /\ dataResponse
  /\ out.status = 200
  /\ ~out.fromCache
  /\ "source" \in DOMAIN out.result
  /\ out.result.source = "fallback"

\* some cache holds a Result whose source is "fallback"
fallbackCached ==
  \E domain \in cacheTypes : \E key \in DOMAIN caches[domain] :
    /\ "source" \in DOMAIN caches[domain][key].v
    /\ caches[domain][key].v.source = "fallback"

\* C16 (as claimed): the handlers apply one policy in every domain: a Result
\* whose source is "fallback" is written to the cache by every handler that
\* produces one, or by none of them.  So no handler answers with a fallback
\* Result it does not cache while a cache holds a fallback Result.
C16_OneFallbackPolicy ==
  (fallbackAnswer /\ ~out.cacheWrote) => ~fallbackCached

\* C17 (as claimed): two consecutive requests for the same domain and supported
\* park within the TTL, with no reset in between, return the same data record
\* whatever the upstreams answer: the record a handler answers with is the one
\* its cache holds under the request's key from then on, so that the next
\* request is answered with it and not with a new acquisition.
C17_AnswerIsRepeatable ==
  [][(/\ out = NoResponse
      /\ out'.route \in {"parkHours", "waitTimes", "entertainment"}
      /\ out'.status = 200
      /\ out'.park \in validParks) =>
       /\ out'.park \in DOMAIN caches'[out'.route]
       /\ caches'[out'.route][out'.park].v = out'.result]_vars

\* C18 (as claimed): a reset for a valid cache type removes every entry of
\* that cache, reports a cleared count equal to the number of keys it held
\* just before and leaves the other two caches and dataState unchanged; a
\* reset for any other type is answered with a client error and changes no
\* cache.
C18_ResetClearsOneCache ==
  [][\A type \in ResetTypes :
       CacheReset(type) =>
         IF type \in cacheTypes
         THEN /\ out'.status = 200
              /\ caches'[type] = emptyCache
              /\ out'.result.clearedKeys = Cardinality(DOMAIN caches[type])
              /\ \A other \in cacheTypes \ {type} : caches'[other] = caches[other]
              /\ dataState' = dataState
         ELSE /\ out'.status \in 400..499
              /\ caches' = caches]_vars

\* the TTL the claim states for each domain, in ms
statedTTL(domain) ==
  1000 * (CASE domain = "waitTimes" -> 300
            [] domain = "entertainment" -> 1800
            [] domain = "parkHours" -> 3600)

\* ms elapsed since the entry of this key was last set
sinceSet(domain, park) ==
  clock - (caches[domain][park].t - statedTTL(domain))

\* the step is the arrival of a request for a supported park at the handler
\* of `domain`
arrives(domain, r, param) ==
  /\ defaultPark(param) \in validParks
  /\ CASE domain = "waitTimes" -> StartWaitTimes(r, param)
       [] domain = "parkHours" -> StartParkHours(r, param)
       [] domain = "entertainment" -> StartEntertainment(r, param)

\* the handler found nothing to serve: it acquires afresh and reports no error
missed ==
  /\ ~out'.fromCache
  /\ out'.status < 400
  /\ req' # req \/ out'.fire # "none"

\* every write of a handler replaces the entry of its key, whatever was there,
\* and the entry's TTL starts again
setRestartsTtl ==
  (out = NoResponse /\ out'.cacheWrote) =>
    caches'[out'.route][out'.park] =
      [v |-> out'.result, t |-> clock + statedTTL(out'.route)]

idsOf(items) ==
  {items[i].id : i \in DOMAIN items}

\* C20: the base-entertainment fetch and the character scrape run
\* concurrently (the scrape's GET is in flight while the base fetch has
\* already settled); a failure of the scrape contributes an empty result and
\* the static and base records still appear in the merged output, which also
\* holds every record the scrape did deliver; the merge starts only after
\* both have settled.
C20_IsolatedFanOut ==
  [][/\ \A r \in Slots, param \in ParkParams :
          (StartEntertainment(r, param) /\ req' # req) =>
            \E q \in Slots : /\ req'[q].route = "entertainment"
                             /\ req'[q].base # "none"
                             /\ req'[q].scrape # "none"
     /\ \A r \in Slots, resp \in Responses(ScrapeBodies) :
          (ScrapeResponse(r, resp) /\ scrapeThrows(resp)) =>
            /\ out' = NoResponse
            /\ \E q \in Slots : /\ req'[q].route = "entertainment"
                                /\ req'[q].park = req[r].park
                                /\ req'[q].scrape = "settled"
                                /\ req'[q].characters = <<>>
     /\ (/\ out = NoResponse
         /\ out'.route = "entertainment"
         /\ out'.status = 200
         /\ ~out'.fromCache) =>
          \E r \in Slots :
            /\ req[r].route = "entertainment"
            /\ req[r].park = out'.park
            /\ req[r].base = "settled"
            /\ req[r].scrape = "settled"
            /\ idsOf(getStaticCharacterMeets(out'.park)) \subseteq idsOf(out'.result.entertainment)
            /\ idsOf(req[r].characters) \subseteq idsOf(out'.result.entertainment)]_vars

\* the scrape of Magic Kingdom brought nothing and the merged output holds
\* the static meets alone
C20_Witness ==
  /\ out.route = "entertainment"
  /\ ~out.fromCache
  /\ out.status = 200
  /\ out.park = "magic-kingdom"
  /\ out.result.sources.characters = "static"
  /\ out.result.totalItems = out.result.sources.staticCount

\* what the merge under study concatenates, in the order of the source
concatenated ==
  getStaticCharacterMeets(call.park)
    \o (IF call.base # Null THEN call.base.entertainment ELSE <<>>)
    \o call.characters

\* the list the merge under study returned
merged ==
  IF call.fn = "mergeEntertainment" THEN call.result.entertainment
  ELSE call.result.characterMeets

\* the last record with this id in a list
lastWithId(items, id) ==
  items[CHOOSE k \in DOMAIN items :
          /\ items[k].id = id
          /\ \A m \in DOMAIN items : m > k => items[m].id # id]

\* C21: after deduplication the merged entertainment list and the merged
\* character-meets list hold exactly one record per identifier of their
\* concatenated sources, and the record that survives for an identifier is
\* the one listed last.
C21_DedupKeepsLast ==
  call.pc = "done" =>
    /\ \A i, j \in DOMAIN merged : merged[i].id = merged[j].id => i = j
    /\ idsOf(merged) = idsOf(concatenated)
    /\ \A i \in DOMAIN merged : merged[i] = lastWithId(concatenated, merged[i].id)

\* the spec's example: two sources list happily_ever_after with different
\* times and the merged list holds the later one
C21_Witness ==
  /\ call.pc = "done"
  /\ call.fn = "mergeEntertainment"
  /\ call.base # Null
  /\ Len(call.base.entertainment) = 2
  /\ call.base.entertainment[1].id = "happily_ever_after"
  /\ call.base.entertainment[2].id = "happily_ever_after"
  /\ call.base.entertainment[1].times # call.base.entertainment[2].times
  /\ \E i \in DOMAIN merged : merged[i] = call.base.entertainment[2]

\* the identifiers of the curated character meets, park by park
curatedIds(park) ==
  CASE park = "magic-kingdom" ->
         {"princess_fairytale_hall", "town_square_theater_mickey",
          "petes_silly_sideshow", "tinker_bell_nook", "enchanted_tales_belle"}
    [] park = "epcot" -> {"epcot_character_spot"}
    [] park = "hollywood-studios" -> {"red_carpet_dreams"}
    [] park = "animal-kingdom" -> {"adventure_outpost"}

\* C22: for every supported park and every outcome of the upstream fetches,
\* the identifier of every static character meet of the park appears in the
\* entertainment result.
C22_StaticMeetsAlwaysIncluded ==
  (call.pc = "done" /\ call.fn = "mergeEntertainment") =>
    curatedIds(call.park) \subseteq idsOf(call.result.entertainment)

\* the base fetch delivered a record under the id of a static meet and the
\* scrape delivered nothing: the id is still in the result
C22_Witness ==
  /\ call.pc = "done"
  /\ call.fn = "mergeEntertainment"
  /\ call.park = "magic-kingdom"
  /\ call.characters = <<>>
  /\ call.base # Null
  /\ "princess_fairytale_hall" \in idsOf(call.base.entertainment)
  /\ Len(call.result.entertainment) = 5

\* C23: when the deduplicated entertainment list is empty the fallback set of
\* getFallbackEntertainment for the park is substituted, so the entertainment
\* list computed on a cache miss is never empty.
C23_NeverEmpty ==
  (call.pc = "done" /\ call.fn = "mergeEntertainment") =>
    /\ dedupById(concatenated) = <<>> =>
         call.result.entertainment = getFallbackEntertainment(rev, call.park)
    /\ Len(call.result.entertainment) > 0
    /\ call.result.totalItems = Len(call.result.entertainment)

\* nothing was delivered for a park without curated meets: the list holds the
\* fallback set
C23_Witness ==
  /\ call.pc = "done"
  /\ call.fn = "mergeEntertainment"
  /\ concatenated = <<>>
  /\ Len(call.result.entertainment) > 0
  /\ \A i \in DOMAIN call.result.entertainment :
       call.result.entertainment[i].source = "fallback"

\* the records of a list whose type is character_meet, in the order of the
\* list, reduced to the fields of the view
RECURSIVE meetsIn(_)
meetsIn(items) ==
  IF items = <<>> THEN <<>>
  ELSE LET x == Head(items)
       IN (IF x.type = "character_meet"
           THEN <<[id |-> x.id, type |-> x.type, times |-> x.times]>>
           ELSE <<>>) \o meetsIn(Tail(items))

\* C24: the characterMeets view of an entertainment result holds exactly the
\* records of the entertainment list whose type is character_meet, in the
\* same order, and no record of any other type.
C24_CharacterMeetsView ==
  (call.pc = "done" /\ call.fn = "mergeEntertainment") =>
    /\ call.result.characterMeets = meetsIn(call.result.entertainment)
    /\ \A i \in DOMAIN call.result.characterMeets :
         call.result.characterMeets[i].type = "character_meet"

\* a list that mixes fireworks, a parade and character meets, and its view
C24_Witness ==
  /\ call.pc = "done"
  /\ call.fn = "mergeEntertainment"
  /\ \E i \in DOMAIN call.result.entertainment :
       call.result.entertainment[i].type = "fireworks"
  /\ \E i \in DOMAIN call.result.entertainment :
       call.result.entertainment[i].id = "live_mickey"
  /\ Len(call.result.characterMeets) = 6
  /\ Len(call.result.entertainment) = 7

\* the name holds one of the words of a specific category
specificName(name) ==
  \E word \in {"parade", "fireworks", "spectacular", "meet", "character"} :
    includes(toLowerCase(name), word)

\* C25 (as claimed): the classifier maps "Festival of Fantasy Parade" to
\* parade, "Happily Ever After" to fireworks, "Mickey Mouse Meet & Greet" to
\* character_meet and "Country Bear Jamboree" to show, and tests the specific
\* categories before the show default.
C25_ClassifierExamples ==
  call.pc = "done" =>
    /\ call.name = "Festival of Fantasy Parade" => call.result = "parade"
    /\ call.name = "Happily Ever After" => call.result = "fireworks"
    /\ call.name = "Mickey Mouse Meet & Greet" => call.result = "character_meet"
    /\ call.name = "Country Bear Jamboree" => call.result = "show"
    /\ specificName(call.name) => call.result # "show"

\* the rides the call was given, when the body has the format the parser reads
ridesGiven ==
  IF parseBranch(rev, call.data, call.parser) = "none" THEN <<>> ELSE call.data.rides

\* the element is an object, whatever fields it has
wellFormed(ride) ==
  ride # JsonNull

\* the field that carries the wait time, and the one that carries the open flag
waitField ==
  IF parseBranch(rev, call.data, call.parser) = "themeparks_wiki" THEN "waitTime" ELSE "wait_time"

openField ==
  IF parseBranch(rev, call.data, call.parser) = "themeparks_wiki" THEN "status" ELSE "is_open"

\* C26 (first half): a payload whose elements are objects with optional fields
\* missing is parsed without throwing into one record per ride, with waitTime 0
\* where the wait time is absent and isOpen false where the open flag is absent.
C26_DefaultsForMissingFields ==
  (call.fn = "parseWaitTimesData" /\ call.pc = "done"
     /\ \A i \in 1..Len(ridesGiven) : wellFormed(ridesGiven[i])) =>
    /\ ~call.threw
    /\ Len(call.result) = Len(ridesGiven)
    /\ \A i \in 1..Len(ridesGiven) :
         /\ ~has(ridesGiven[i], waitField) => call.result[i].waitTime = 0
         /\ ~has(ridesGiven[i], openField) => call.result[i].isOpen = FALSE

\* C26 (as claimed): parseWaitTimesData returns a list without throwing for
\* every object-shaped payload, with waitTime 0 and isOpen false where the
\* fields are absent, and a malformed element neither makes the call throw
\* nor loses the records of the well-formed elements parsed before it.
C26_MalformedElementKeepsRecords ==
  (call.fn = "parseWaitTimesData" /\ call.pc = "done") =>
    /\ ~call.threw
    /\ \A i \in 1..Len(ridesGiven) :
         (\A j \in 1..i : wellFormed(ridesGiven[j])) =>
           /\ Len(call.result) >= i
           /\ call.result[i].id = rideId(call.park, ridesGiven[i])
           /\ ~has(ridesGiven[i], waitField) => call.result[i].waitTime = 0
           /\ ~has(ridesGiven[i], openField) => call.result[i].isOpen = FALSE

\* HTTP 200 with a string where the wait-times object is expected
WrongShaped ==
  [kind |-> "response", status |-> 200, body |-> [shape |-> "string"]]

\* the handler is waiting for the answer to the first GET of its acquisition
firstAnswer(r) ==
  /\ req[r].route = "waitTimes"
  /\ Len(req[r].log) = 1
  /\ ~req[r].timedOut

\* C27 (as claimed): when the wait-times sources answer HTTP 200 with a body
\* of a fundamentally wrong shape (a string instead of an object), the
\* acquisition resolves to the fallback result (source "fallback"), not to a
\* live-tagged one.
C27_WrongShapeFallsBack ==
  [][\A r \in Slots :
       (firstAnswer(r) /\ (WaitTimesResponse(r, WrongShaped)
                            \/ WaitTimesResponseV1(r, WrongShaped)))
         => out'.result.source = "fallback"]_vars

\* a request for this park arrives, misses the cache and calls fire(park)
firesFor(park) ==
  /\ breaker'.fires = breaker.fires + 1
  /\ park \notin DOMAIN caches.waitTimes
  /\ \E r \in Slots : StartWaitTimes(r, park)

\* C28: there is one wait-times breaker for all parks and all concurrent
\* requests: once failures of requests for one park have opened it, a request
\* for any other park is short-circuited to the fallback (of the park asked
\* for) for as long as the breaker is OPEN, and starts no acquisition.
C28_BreakerSharedByParks ==
  [][\A failing \in SharedParks : \A other \in SharedParks \ {failing} :
       (breaker.state = "OPEN" /\ breaker.parks = {failing} /\ firesFor(other)) =>
         /\ out'.how = "short"
         /\ out'.park = other
         /\ out'.result = getFallbackWaitTimes(rev, other)
         /\ req' = req
         /\ breaker'.state = "OPEN"]_vars

\* witness of C28: the failures counted are all of Magic Kingdom requests, the
\* breaker is open, and a request for EPCOT has been answered by the fallback
\* without an acquisition
C28_Witness ==
  /\ fired
  /\ out.how = "short"
  /\ out.park = "epcot"
  /\ out.log = <<>>
  /\ breaker.state = "OPEN"
  /\ breaker.parks = {"magic-kingdom"}

\* the documented order of the park-hours sources of v1
documentedHosts ==
  <<"touringplans.com", "queue-times.com", "api.themeparks.wiki">>

documentedNames ==
  <<"touringplans", "queue_times", "themeparks_wiki">>

\* the GETs sent so far went to the first n documented sources, in that order
triedInOrder(log, n) ==
  /\ Len(log) = n
  /\ \A k \in 1..n : log[k].host = documentedHosts[k]

\* the source answered, and its body is not empty
answersWithBody(resp) ==
  axiosResolves(resp) /\ resp.body.shape # "empty"

\* C29: in the v1 server the park-hours sources are tried in the order
\* TouringPlans, Queue-Times, ThemeParks.wiki; the first one that answers with
\* a non-empty body supplies the result and no later source is contacted; only
\* when all three have failed is the static fallback returned, with source
\* "fallback".
C29_HoursSourcesInOrder ==
  [][rev = "v1" =>
       \A r \in Slots : \A resp \in Responses(HoursBodies) :
         ParkHoursResponse(r, resp) =>
           LET s == req[r]
           IN /\ triedInOrder(s.log, s.src)
              /\ IF answersWithBody(resp)
                 THEN /\ out'.status = 200
                      /\ out'.result.source = documentedNames[s.src]
                      /\ out'.log = s.log
                 ELSE IF s.src < 3
                 THEN /\ out' = NoResponse
                      /\ \E q \in Slots : triedInOrder(req'[q].log, s.src + 1)
                 ELSE /\ out'.status = 200
                      /\ out'.result = getStaticParkHours(rev, s.park)
                      /\ out'.result.source = "fallback"
                      /\ triedInOrder(out'.log, 3)]_vars

\* witness of C29: TouringPlans failed, Queue-Times answered and supplied the
\* result, ThemeParks.wiki was not asked
C29_Witness ==
  /\ rev = "v1"
  /\ out.route = "parkHours"
  /\ ~out.fromCache
  /\ triedInOrder(out.log, 2)
  /\ out.result.source = "queue_times"

\* this client's request is the one that takes its count over the limit
exceeds(ip) ==
  /\ hits[ip] = rateMax(rev)
  /\ hits'[ip] = hits[ip] + 1

\* C30 (as claimed): when a client IP exceeds the rate limit inside the
\* 15-minute window, its request to an /api/ route is answered with cached
\* data (here: the wait times the cache holds for the park asked for).
C30_OverLimitServedFromCache ==
  [][\A ip \in ClientIps : \A param \in WaitTimesParams :
       (/\ exceeds(ip)
        /\ cacheHas(caches.waitTimes, defaultPark(param))
        /\ \E r \in Slots : LimitedWaitTimes(ip, r, param)) =>
         /\ out'.status = 200
         /\ out'.fromCache
         /\ out'.result = cacheGet(caches.waitTimes, defaultPark(param))]_vars

\* the wrapped function of this slot is waiting for the answer to a GET
waitsForAnswer(r) ==
  req[r].route = "waitTimes" /\ req[r].apc = "inflight"

\* the answer that arrives makes a source of the wait-times loop succeed
sourceSucceeds ==
  /\ out = NoResponse
  /\ req' # req
  /\ \E r \in Slots :
       /\ waitsForAnswer(r)
       /\ \E resp \in Responses(WaitBodies) :
            attemptSucceeds(rev, resp) /\ WaitTimesResponse(r, resp)

\* the answer that arrives is the failure of the last attempt fetchWithRetry
\* makes for a source: the source has failed
sourceFails ==
  /\ out = NoResponse
  /\ req' # req
  /\ \E r \in Slots :
       /\ waitsForAnswer(r)
       /\ req[r].retries = 0
       /\ \E resp \in Responses(WaitBodies) :
            ~attemptSucceeds(rev, resp) /\ WaitTimesResponse(r, resp)

\* C31: dataState.errorCounts.waitTimes is the number of wait-times sources
\* that have failed since the most recent successful source fetch: it starts at
\* 0, a successful source sets it to 0, a source that fails after its retries
\* adds exactly one, and no other step (failed attempts that are retried,
\* fallbacks, steps of concurrent requests) changes it.
C31_ErrorCountTracksFailedSources ==
  /\ newDataState.errorCounts.waitTimes = 0
  /\ [][(rev \in BreakerRevs) =>
          LET before == dataState.errorCounts.waitTimes
              after == dataState'.errorCounts.waitTimes
          IN IF after = before + 1 THEN sourceFails
             ELSE IF after # before THEN after = 0 /\ sourceSucceeds
             ELSE ~sourceFails /\ (before = 0 \/ ~sourceSucceeds)]_vars

\* witness of C31: two concurrent requests have each lost their first source,
\* and both failures are counted
C31_Witness ==
  /\ rev \in BreakerRevs
  /\ \A r \in Slots : req[r].route = "waitTimes" /\ req[r].src = 2 /\ ~req[r].timedOut
  /\ dataState.errorCounts.waitTimes = 2

\* the GETs sent so far by the acquisitions that run in the first n slots
RECURSIVE getsSent(_, _)
getsSent(slots, n) ==
  IF n = 0 THEN 0 ELSE Len(slots[n].log) + getsSent(slots, n - 1)

\* every invocation that is still running was resolved to its caller by the
\* breaker's timeout
onlyTimedOutRunning ==
  /\ \E r \in Slots : running(req[r])
  /\ \A r \in Slots : running(req[r]) => req[r].timedOut

\* C32 (as claimed): once an invocation of the wait-times breaker has been
\* resolved to its caller with the fallback because the breaker's timeout
\* fired, that invocation sends no further HTTP request and writes dataState
\* no more.
C32_TimedOutInvocationIsQuiet ==
  [][(onlyTimedOutRunning /\ now' = now) =>
       /\ getsSent(req', MaxSlots) <= getsSent(req, MaxSlots)
       /\ dataState' = dataState]_vars

\* normalizing this body of a park-hours source fails or takes no hours from it
nothingUsableHours(rv, park, src, body) ==
  LET live == liveParkHours(rv, park, src, body)
  IN \/ live = Null
     \/ \A k \in 1..Len(live.hours) : live.hours[k].origin # "upstream"

\* normalizing this body of a wait-times source yields no attraction
nothingUsableWaits(rv, park, src, body) ==
  parseWaitTimesData(rv, body, park, src.parser) = <<>>

\* C33 (as claimed): when normalizing the response of one source fails or
\* yields nothing usable, the acquisition treats the source as failed and
\* asks the next source in order before it resorts to the fallback, in the
\* park-hours source loop and in the wait-times source loop.
C33_UnusableSourceTriesNext ==
  [][(rev \in BreakerRevs) =>
       \A r \in Slots :
         /\ \A resp \in Responses(HoursBodies) :
              LET srcs == parkHoursSources(rev, req[r].park)
              IN (/\ ParkHoursResponse(r, resp)
                  /\ hoursAccepted(rev, resp)
                  /\ req[r].src < Len(srcs)
                  /\ nothingUsableHours(rev, req[r].park, srcs[req[r].src], resp.body))
                   => /\ out' = NoResponse
                      /\ \E q \in Slots : req'[q].src = req[r].src + 1
         /\ \A resp \in Responses(WaitBodies) :
              LET srcs == sourcesInOrder(rev, req[r].park)
              IN (/\ WaitTimesResponse(r, resp)
                  /\ attemptSucceeds(rev, resp)
                  /\ ~req[r].timedOut
                  /\ req[r].src < Len(srcs)
                  /\ nothingUsableWaits(rev, req[r].park, srcs[req[r].src], resp.body))
                   => /\ out' = NoResponse
                      /\ \E q \in Slots : req'[q].src = req[r].src + 1]_vars

\* a park-hours result whose hours were all taken from the upstream response
hoursFromUpstream(result) ==
  \A k \in 1..Len(result.hours) : result.hours[k].origin = "upstream"

\* C34 (as claimed): a park-hours result is tagged as live (source other than
\* "fallback") only when its hours entries were taken from an upstream
\* response; hours filled in from the typical-hours tables are always tagged
\* source "fallback".
C34_LiveTagOnlyForUpstreamHours ==
  (out.route = "parkHours" /\ out.status = 200 /\ out.result # Null) =>
    (out.result.source # "fallback" => hoursFromUpstream(out.result))

\* the result holds a record that an upstream path returned
hasUpstreamRecord(result) ==
  \E k \in 1..Len(result.entertainment) :
    result.entertainment[k].source \notin {"static", "fallback"}

\* C35 (as claimed): dataState.lastSuccessfulFetch.entertainment changes only
\* in a request in which the base entertainment fetch or the character scrape
\* returned records; a request served from static or fallback data alone
\* leaves it unchanged.
C35_EntertainmentStampNeedsUpstream ==
  [][dataState'.lastSuccessfulFetch.entertainment
       # dataState.lastSuccessfulFetch.entertainment =>
         /\ out'.route = "entertainment"
         /\ hasUpstreamRecord(out'.result)]_vars

\* the calls admitted as the trial of a half-open breaker whose fire() has
\* not settled
trialCalls ==
  {r \in Slots : pending(req[r]) /\ req[r].trial}

\* C36: while the breaker is HALF_OPEN exactly one trial call runs the wrapped
\* function (none before the first fire(), no second one after it); a request
\* that reaches fire() while the trial is pending is answered with the
\* fallback and sends no GET.
C36_HalfOpenAdmitsOneTrial ==
  /\ [](breaker.state = "HALF_OPEN" =>
          /\ \A r \in Slots : pending(req[r]) => req[r].trial
          /\ Cardinality(trialCalls) = IF breaker.pendingClose THEN 0 ELSE 1)
  /\ [][(breaker.state = "HALF_OPEN" /\ trialCalls # {} /\ now' # now) =>
          /\ req' = req
          /\ out'.route = "waitTimes"
          /\ out'.log = <<>>
          /\ \/ out'.status = 400
             \/ out'.fromCache
             \/ /\ out'.how = "short"
                /\ out'.result = getFallbackWaitTimes(rev, out'.park)]_vars

\* witness of C36: a request met the half-open breaker while its trial call
\* was pending and has been answered by the short-circuit fallback
C36_Witness ==
  /\ breaker.state = "HALF_OPEN"
  /\ trialCalls # {}
  /\ out.how = "short"
  /\ out.result = getFallbackWaitTimes(rev, out.park)

\* the wait-times route and the park-hours route served by one process
\* the clients under study have asked for no other domain than `route`
asksOnly(route) ==
  /\ \A r \in Slots : req[r].route \in {"none", route}
  /\ out.route \in {"none", route}
  /\ \A domain \in cacheTypes \ {route} : DOMAIN caches[domain] = {}

\* wait-times requests only
waitsOnly ==
  asksOnly("waitTimes")

\* park-hours requests only
hoursOnly ==
  asksOnly("parkHours") /\ breaker = newBreaker

RaceNext ==
  \/ \E r \in Slots, param \in WaitTimesParams : waitsOnly /\ StartWaitTimes(r, param)
  \/ \E r \in Slots, resp \in Responses(WaitBodies) : WaitTimesResponse(r, resp)
  \/ \E r \in Slots : RetryDelayElapses(r)
  \/ \E r \in Slots : BreakerTimeout(r)
  \/ ResetTimeoutElapses
  \/ WindowRoll
  \/ \E r \in Slots, resp \in Responses(WaitBodies) : WaitTimesResponseV1(r, resp)
  \/ \E key \in RequestedParks : CacheExpire("waitTimes", key)
  \/ \E r \in Slots, param \in ParkParams : hoursOnly /\ StartParkHours(r, param)
  \/ \E r \in Slots, resp \in Responses(HoursBodies) : ParkHoursResponse(r, resp)
  \/ \E key \in RequestedParks : CacheExpire("parkHours", key)
  \/ Deliver

RaceSpec == Init /\ [][RaceNext]_vars

\* the acquisitions in progress
acquiring ==
  {r \in Slots : running(req[r])}

\* the arriving request is answered at once with `how`, starting nothing
answeredAtOnce ==
  /\ req' = req
  /\ out' # NoResponse
  /\ out'.log = <<>>

\* the arriving request starts an acquisition of its own: one more slot is
\* running and one more GET has been sent, whatever else is in flight
ownAcquisition ==
  /\ out' = NoResponse
  /\ Cardinality(acquiring') = Cardinality(acquiring) + 1
  /\ getsSent(req', MaxSlots) = getsSent(req, MaxSlots) + 1

\* a handler that writes the cache leaves its own value there
lastSetWins ==
  (out = NoResponse /\ out'.cacheWrote) =>
     /\ cacheHas(caches'[out'.route], out'.park)
     /\ cacheGet(caches'[out'.route], out'.park) = out'.result

\* a request for the same domain and park is in flight: it missed the cache
\* and its handler has not written it
sameInFlight(route, park) ==
  \E q \in Slots : /\ running(req[q])
                   /\ req[q].route = route
                   /\ req[q].park = park
                   /\ ~req[q].timedOut

\* C37 (amended): a request is answered from the cache only when the cache
\* holds its park; a request that misses starts an acquisition of its own
\* whatever is in flight, unless the wait-times breaker of v3.1 / v3.2
\* short-circuits it to the fallback; and a handler that sets the cache
\* overwrites what is there, so the cache holds the value of the last set.
C37_NoCoalescingLastSetWins ==
  [][/\ now' # now =>
          \/ answeredAtOnce /\ out'.status = 400
          \/ /\ answeredAtOnce
             /\ out'.fromCache
             /\ cacheHas(caches[out'.route], out'.park)
          \/ /\ answeredAtOnce
             /\ rev \in BreakerRevs
             /\ shortCircuits(breaker)
             /\ out'.route = "waitTimes"
             /\ out'.how = "short"
             /\ ~cacheHas(caches.waitTimes, out'.park)
          \/ ownAcquisition
     /\ lastSetWins]_vars

\* witness of C37: two requests for the same park missed the cache and each
\* sent its own GET; the handler of one has set the cache while the other is
\* still acquiring
C37_Witness ==
  /\ out.cacheWrote
  /\ out.log # <<>>
  /\ cacheGet(caches[out.route], out.park) = out.result
  /\ \E r \in Slots : /\ running(req[r])
                      /\ req[r].route = out.route
                      /\ req[r].park = out.park
                      /\ ~req[r].timedOut
                      /\ req[r].log # <<>>

\* C37 (as claimed): whenever a request misses the cache while another request
\* for the same domain and park is in flight and has not written the cache,
\* it performs its own upstream acquisition.
C37_EveryMissAcquires ==
  [][\A r \in Slots, param \in WaitTimesParams :
       (/\ now' # now
        /\ validatePark(rev, defaultPark(param))
        /\ ~cacheHas(caches.waitTimes, defaultPark(param))
        /\ sameInFlight("waitTimes", defaultPark(param))
        /\ StartWaitTimes(r, param)) => ownAcquisition]_vars

\* the park-hours handler answers with the static hours
staticHoursAnswer(resp) ==
  /\ resp.route = "parkHours"
  /\ resp.status = 200
  /\ ~resp.fromCache
  /\ resp.result = getStaticParkHours(rev, resp.park)

\* C38: the park-hours handler answers with the static fallback only after
\* asking upstream and without touching the cache; no entry of the park-hours
\* cache is a static fallback result; and while no acquisition has succeeded
\* (the cache has never been written) every valid park-hours request starts
\* the upstream sources again.
C38_StaticHoursNeverCached ==
  [][/\ (out = NoResponse /\ staticHoursAnswer(out')) =>
          /\ caches' = caches
          /\ ~out'.cacheWrote
          /\ out'.log # <<>>
     /\ \A key \in DOMAIN caches'.parkHours :
          /\ caches'.parkHours[key].v.source # "fallback"
          /\ caches'.parkHours[key].v # getStaticParkHours(rev, key)
     /\ (now' # now /\ DOMAIN caches.parkHours = {}) =>
          \/ answeredAtOnce /\ out'.status = 400
          \/ ownAcquisition /\ DOMAIN caches'.parkHours = {}]_vars

\* witness of C38: a second request has asked upstream again and is answered
\* with the static hours, the cache still being empty
C38_Witness ==
  /\ now >= 2
  /\ staticHoursAnswer(out)
  /\ Len(out.log) >= 1
  /\ DOMAIN caches.parkHours = {}
  /\ \A r \in Slots : ~running(req[r])

\* the schedule page answered with a status that is not 200, whatever its body
BlockedPages ==
  {[kind |-> "response", status |-> s, body |-> b] :
     s \in {403, 429, 503}, b \in ScrapeBodies}

\* the answers drawn for the GET of the schedule page
ScrapeAnswers ==
  Responses(ScrapeBodies) \cup BlockedPages

\* the entertainment route with every answer of the schedule page
ScrapeNext ==
  \/ \E r \in Slots, param \in ParkParams : StartEntertainment(r, param)
  \/ \E r \in Slots, resp \in ScrapeAnswers : ScrapeResponse(r, resp)
  \/ \E r \in Slots : EntertainmentMerge(r)
  \/ \E key \in RequestedParks : CacheExpire("entertainment", key)
  \/ Deliver

ScrapeSpec == EntertainmentInit /\ [][ScrapeNext]_vars

\* a network error, a status other than 200, or an access-denied body
scrapeFails(resp) ==
  \/ resp.kind # "response"
  \/ resp.status # 200
  \/ resp.body.shape = "denied"

\* the requests holding scraped characters
withCharacters(slots) ==
  {q \in Slots : slots[q].characters # <<>>}

\* the requests whose scrape has resolved
scrapeSettled(slots) ==
  {q \in Slots : slots[q].route = "entertainment" /\ slots[q].scrape = "settled"}

\* C39: scrapeThemeParkIQCharacters always resolves: on a network error, a
\* 403, 429 or other non-200 status and on an access-denied body the scrape
\* settles with no characters and the handler goes on to answer 200; for a
\* park other than magic-kingdom it settles at once with no characters and no
\* GET is ever sent.
C39_ScrapeResolvesEmpty ==
  [][/\ \A r \in Slots, resp \in ScrapeAnswers :
          (/\ out = NoResponse
           /\ req' # req
           /\ req[r].scrape = "pending"
           /\ scrapeFails(resp)
           /\ ScrapeResponse(r, resp)) =>
             /\ Cardinality(withCharacters(req')) = Cardinality(withCharacters(req))
             /\ Cardinality(scrapeSettled(req')) = Cardinality(scrapeSettled(req)) + 1
     /\ \A q \in Slots :
          (req'[q].route = "entertainment" /\ req'[q].park # "magic-kingdom") =>
             /\ req'[q].scrape = "settled"
             /\ req'[q].characters = <<>>
             /\ req'[q].log = <<>>
     /\ (out'.route = "entertainment" /\ out'.status # 400) =>
          /\ out'.status = 200
          /\ (out'.park # "magic-kingdom" /\ ~out'.fromCache) =>
                /\ out'.log = <<>>
                /\ out'.result.sources.characters = "static"]_vars

\* witness of C39: the GET of the schedule page was sent for magic-kingdom and
\* the scrape has settled with no characters, while a request for another
\* park is merged without any GET
C39_Witness ==
  /\ \E q \in Slots : /\ req[q].route = "entertainment"
                      /\ req[q].park = "magic-kingdom"
                      /\ req[q].scrape = "settled"
                      /\ req[q].log # <<>>
                      /\ req[q].characters = <<>>
  /\ out.route = "entertainment"
  /\ out.status = 200
  /\ ~out.fromCache
  /\ out.park # "magic-kingdom"
  /\ out.log = <<>>

\* names the cards of the schedule page can carry (trimmed, not empty); two of
\* them spell the identifier of a static character meet
ScrapedNames ==
  {"Mickey Mouse", "Princess Fairytale Hall", "Tinker Bell: Nook"}

\* the schedule page answered 200 with cards of these names
schedulePage(names) ==
  [kind |-> "response", status |-> 200,
   body |-> [shape |-> "html", names |-> names]]

\* what scrapeThemeParkIQCharacters resolves to for a park and a page
scrapedFor(park, names) ==
  IF park # "magic-kingdom" THEN <<>> ELSE scrapeCharacters(schedulePage(names))

\* the merge blocks called with the characters scraped from a page
ScrapedInit ==
  /\ rev \in BreakerRevs
  /\ now = 0
  /\ breaker = newBreaker
  /\ dataState = newDataState
  /\ caches = [waitTimes |-> emptyCache, parkHours |-> emptyCache,
               entertainment |-> emptyCache]
  /\ clock = 0
  /\ req = [r \in Slots |-> idleSlot]
  /\ hits = noHits
  /\ out = NoResponse
  /\ fw = noFetch
  /\ \E park \in validParks, names \in listsOf(ScrapedNames) :
       \/ \E base \in BaseResults :
            call = mergeCall(rev, park, base, scrapedFor(park, names))
       \/ call = meetsCall(rev, park, scrapedFor(park, names))

ScrapedSpec == ScrapedInit /\ [][MergeNext]_vars

\* does the identifier begin with "live_"?
beginsWithLive(id) ==
  Len(id) >= 5 /\ SubSeq(id, 1, 5) = "live_"

\* the records of the finished call's answer
answerRecords ==
  IF call.fn = "combineCharacterMeets" THEN call.result.characterMeets
  ELSE call.result.entertainment

\* C40: every record of the character scrape has an identifier beginning with
\* "live_", no static character meet of any park has one, and after the
\* last-write-wins deduplication of either handler every static character
\* meet of the park is still in the answer under its identifier, never as a
\* scraped record (unchanged in the character-meets handler).
C40_ScrapedIdsNeverHitStatic ==
  /\ \A k \in 1..Len(call.characters) : beginsWithLive(call.characters[k].id)
  /\ \A park \in validParks :
       \A i \in 1..Len(getStaticCharacterMeets(park)) :
          ~beginsWithLive(getStaticCharacterMeets(park)[i].id)
  /\ call.pc = "done" =>
       \A i \in 1..Len(getStaticCharacterMeets(call.park)) :
          LET static == getStaticCharacterMeets(call.park)[i]
          IN \E j \in 1..Len(answerRecords) :
               /\ answerRecords[j].id = static.id
               /\ answerRecords[j].source # "theme_park_iq"
               /\ call.fn = "combineCharacterMeets" => answerRecords[j] = static

\* witness of C40: the page carried a card named like a static character meet
\* and the answer of the character-meets handler holds both records
C40_Witness ==
  /\ call.pc = "done"
  /\ call.fn = "combineCharacterMeets"
  /\ \E k \in 1..Len(call.characters) :
       call.characters[k].id = "live_princess_fairytale_hall"
  /\ \E j \in 1..Len(answerRecords) : answerRecords[j].id = "live_princess_fairytale_hall"
  /\ \E j \in 1..Len(answerRecords) :
       answerRecords[j] = item("princess_fairytale_hall", "character_meet", "static")

====
